---- MODULE Spec2Model ----
(***************************************************************************)
(* Model of the mesh generators of rusty-cage (src/src/mesh.rs):           *)
(* Mesh::quad, Mesh::icosphere and calculate_tangents_bitangents.          *)
(*                                                                         *)
(* f32 values are modelled as fixed-point integers: the integer k stands   *)
(* for the real number k / Scale.  A 3-vector is a 3-tuple, a 2-vector a   *)
(* 2-tuple.  A vector with an infinite or NaN component is modelled by the *)
(* single value NonFinite.  Index values are 0-based as in the code;       *)
(* TLA+ sequences are 1-based, so list[i] of the code is list[i + 1] here. *)
(***************************************************************************)
EXTENDS Integers, Sequences, FiniteSets, TLC

\* ------------------------------------------------------------------ bounds

\* Largest iterations value whose subdivision rounds are run in full.
MaxIterations == 3
\* An iterations value above the sane bound of 6 that the specification names.
BigIterations == 7
\* Radii 0..MaxRadius are passed to Mesh::icosphere (the UI slider starts at 0).
MaxRadius == 2
\* Widths and heights 0..MaxSide are passed to Mesh::quad.
MaxSide == 2
\* The event loop runs for MaxFrames frame times on the clock.
MaxFrames == 1

\* ------------------------------------------------------ fixed-point numbers

\* The integer that stands for 1.0.
Scale == 10000
Half == Scale \div 2
\* Angles are kept in units of 1 / Turn of a full turn while they are computed.
Turn == Scale * Scale
\* Coordinates are multiplied by this before the angle of a vector is taken.
CordicShift == 1024

Abs(a) == IF a < 0 THEN -a ELSE a
Sign(a) == IF a < 0 THEN -1 ELSE IF a > 0 THEN 1 ELSE 0
Max2(a, b) == IF a >= b THEN a ELSE b

\* a / b rounded to the nearest integer, halves away from zero (b > 0).
RoundDiv(a, b) == Sign(a) * ((Abs(a) + b \div 2) \div b)

\* The product of two fixed-point numbers.
FMul(a, b) == RoundDiv(a * b, Scale)

RECURSIVE NewtonSqrt(_, _)
NewtonSqrt(n, x) ==
    LET y == (x + n \div x) \div 2
    IN IF y >= x THEN x ELSE NewtonSqrt(n, y)

\* The integer nearest to the square root of n (n >= 0).
ISqrt(n) ==
    IF n = 0 THEN 0
    ELSE LET r == NewtonSqrt(n, 46341)
         IN IF n - r * r > r THEN r + 1 ELSE r

\* f32::sqrt of a fixed-point number.
FSqrt(a) == ISqrt(a * Scale)

\* atan(2^-i) in units of 1 / Turn of a full turn, i = 0..15.
AtanTable ==
    << 12500000, 7379181, 3898957, 1979171, 993426, 497197, 248659, 124337,
       62170, 31085, 15542, 7771, 3886, 1943, 971, 486 >>

Pow2(i) == 2 ^ i

RECURSIVE Cordic(_, _, _, _)
\* The angle of the vector (x, y), x > 0, by successive rotations.
Cordic(x, y, angle, i) ==
    IF i = Len(AtanTable) \/ y = 0 THEN angle
    ELSE IF y > 0
         THEN Cordic(x + y \div Pow2(i), y - x \div Pow2(i), angle + AtanTable[i + 1], i + 1)
         ELSE Cordic(x - y \div Pow2(i), y + x \div Pow2(i), angle - AtanTable[i + 1], i + 1)

\* f32::atan2(y, x) as a fraction of a full turn, in units of 1 / Turn:
\* the result lies in -Turn/2 .. Turn/2.  The values on the axes are exact,
\* as they are in f32 (atan2(0, x < 0) = pi, atan2(0, 0) = 0).
Atan2(y, x) ==
    IF y = 0 THEN (IF x < 0 THEN Turn \div 2 ELSE 0)
    ELSE IF x = 0 THEN Sign(y) * (Turn \div 4)
    ELSE LET a == Cordic(Abs(x) * CordicShift, Abs(y) * CordicShift, 0, 0)
         IN Sign(y) * (IF x < 0 THEN Turn \div 2 - a ELSE a)

\* ------------------------------------------------------------------ vectors

\* A vector with an infinite or NaN component.
NonFinite == << >>
IsFinite(v) == Len(v) = 3

Vec3(x, y, z) == << x, y, z >>
Vec2(x, y) == << x, y >>
Zero3 == Vec3(0, 0, 0)

Add3(a, b) == Vec3(a[1] + b[1], a[2] + b[2], a[3] + b[3])
Sub3(a, b) == Vec3(a[1] - b[1], a[2] - b[2], a[3] - b[3])
Sub2(a, b) == Vec2(a[1] - b[1], a[2] - b[2])
\* A vector times a fixed-point scalar.
Scale3(a, s) == Vec3(FMul(a[1], s), FMul(a[2], s), FMul(a[3], s))
\* The sum of two vectors either of which may be non-finite.
AddF(a, b) == IF IsFinite(a) /\ IsFinite(b) THEN Add3(a, b) ELSE NonFinite

\* The squared length of a vector, in units of 1 / Scale^2.
Magnitude2(a) == a[1] * a[1] + a[2] * a[2] + a[3] * a[3]
Magnitude(a) == ISqrt(Magnitude2(a))

\* cgmath's InnerSpace::normalize: v * (1 / |v|).  The zero vector has
\* magnitude 0, 1 / 0 is infinite and 0 * inf is NaN.  f32 keeps the relative
\* precision of a long or a short vector; here the vector is first brought
\* to a length near 1 (shortened by k or lengthened by j), which leaves its
\* direction and keeps its squared length within the integers.
Normalize(a) ==
    IF ~IsFinite(a) \/ a = Zero3 THEN NonFinite
    ELSE LET m == Max2(Abs(a[1]), Max2(Abs(a[2]), Abs(a[3])))
             k == m \div (2 * Scale) + 1
             j == IF m < Scale THEN Scale \div m ELSE 1
             b == Vec3(RoundDiv(a[1] * j, k), RoundDiv(a[2] * j, k), RoundDiv(a[3] * j, k))
             len == Magnitude(b)
         IN Vec3(RoundDiv(b[1] * Scale, len), RoundDiv(b[2] * Scale, len),
                 RoundDiv(b[3] * Scale, len))

\* A Vec whose elements are given by position: the sequence with the same
\* elements as the function f on 1..n.
ToVec(f) == SubSeq(f, 1, Len(f))

\* ---------------------------------------------------------------- camera

\* std::f32::consts::PI and FRAC_PI_2, and `FRAC_PI_2 - 0.0001`.
PI == 31416
FRAC_PI_2 == 15708
SAFE_FRAC_PI_2 == FRAC_PI_2 - 1

\* cgmath's Deg -> Rad conversion of a whole number of degrees.
Radians(deg) == RoundDiv(deg * PI, 180)

\* The product of two fixed-point numbers either of which may be large:
\* FMul with the factors split so that no partial product leaves the
\* integers.
FMulWide(a, b) ==
    LET a1 == Abs(a) \div Scale
        a0 == Abs(a) % Scale
        b1 == Abs(b) \div Scale
        b0 == Abs(b) % Scale
    IN Sign(a) * Sign(b) * (a1 * b1 * Scale + a1 * b0 + a0 * b1 + RoundDiv(a0 * b0, Scale))

\* A vector times a scalar that may be large.
ScaleWide3(a, s) == Vec3(FMulWide(a[1], s), FMulWide(a[2], s), FMulWide(a[3], s))

\* sin x for -pi/2 <= x <= pi/2, by its power series up to x^9.
SinSeries(x) ==
    LET x2 == FMul(x, x)
        t4 == Scale - x2 \div 72
        t3 == Scale - FMul(x2, t4) \div 42
        t2 == Scale - FMul(x2, t3) \div 20
        t1 == Scale - FMul(x2, t2) \div 6
    IN FMul(x, t1)

\* f32::sin and f32::cos of any angle: the angle is first brought into
\* -pi..pi, then into -pi/2..pi/2 by sin(pi - x) = sin x.
Sin(a) ==
    LET m == ((a + PI) % (2 * PI)) - PI
    IN IF m > FRAC_PI_2 THEN SinSeries(PI - m)
       ELSE IF m < -FRAC_PI_2 THEN SinSeries(-PI - m)
       ELSE SinSeries(m)
Cos(a) == Sin(a + FRAC_PI_2)

\* f32::sin_cos.
sin_cos(a) == [ sin |-> Sin(a), cos |-> Cos(a) ]

\* Eye::new.
EyeNew(position, yaw, pitch) == [ position |-> position, yaw |-> yaw, pitch |-> pitch ]

\* Controller::new.
ControllerNew(speed, sensitivity) ==
    [ move_left |-> 0, move_right |-> 0, move_forward |-> 0,
      move_backward |-> 0, move_up |-> 0, move_down |-> 0,
      rotate_horizontal |-> 0, rotate_vertical |-> 0, scroll |-> 0,
      speed |-> speed, sensitivity |-> sensitivity ]

\* Controller::process_keyboard: the controller after the call.
process_keyboard(c, key, state) ==
    LET move_amount == IF state = "Pressed" THEN Scale ELSE 0
    IN CASE key \in { "W", "Up" } -> [ c EXCEPT !.move_forward = move_amount ]
         [] key \in { "S", "Down" } -> [ c EXCEPT !.move_backward = move_amount ]
         [] key \in { "A", "Left" } -> [ c EXCEPT !.move_left = move_amount ]
         [] key \in { "D", "Right" } -> [ c EXCEPT !.move_right = move_amount ]
         [] key = "E" -> [ c EXCEPT !.move_up = move_amount ]
         [] key = "Q" -> [ c EXCEPT !.move_down = move_amount ]
         [] OTHER -> c

\* Controller::process_mouse.
process_mouse(c, mouse_dx, mouse_dy) ==
    [ c EXCEPT !.rotate_horizontal = mouse_dx, !.rotate_vertical = mouse_dy ]

\* Controller::process_scroll: a line counts as 100 pixels.
process_scroll(c, unit, amount) ==
    [ c EXCEPT !.scroll = -(IF unit = "LineDelta" THEN amount * 100 ELSE amount) ]

\* ContainPitch without its second comparison.
ContainPitchBelow(pitch) ==
    IF pitch < -SAFE_FRAC_PI_2 THEN -SAFE_FRAC_PI_2 ELSE pitch

\* The clamp at the end of update_eye.
ContainPitch(pitch) ==
    IF pitch < -SAFE_FRAC_PI_2 THEN -SAFE_FRAC_PI_2
    ELSE IF pitch > SAFE_FRAC_PI_2 THEN SAFE_FRAC_PI_2
    ELSE pitch

\* update_eye that keeps the scroll amount for the next frame.
update_eye_keeps_scroll(c, e, dt) ==
    LET yaw == sin_cos(e.yaw)
        forward == Normalize(Vec3(yaw.cos, 0, yaw.sin))
        right == Normalize(Vec3(-yaw.sin, 0, yaw.cos))
        p1 == Add3(e.position,
                   ScaleWide3(ScaleWide3(ScaleWide3(forward, c.move_forward - c.move_backward),
                                         c.speed), dt))
        p2 == Add3(p1,
                   ScaleWide3(ScaleWide3(ScaleWide3(right, c.move_right - c.move_left),
                                         c.speed), dt))
        pitch == sin_cos(e.pitch)
        scrollward == Normalize(Vec3(FMul(pitch.cos, yaw.cos), pitch.sin,
                                     FMul(pitch.cos, yaw.sin)))
        p3 == Add3(p2,
                   ScaleWide3(ScaleWide3(ScaleWide3(ScaleWide3(scrollward, c.scroll),
                                                    c.speed), c.sensitivity), dt))
        p4 == Vec3(p3[1],
                   p3[2] + FMulWide(FMulWide(c.move_up - c.move_down, c.speed), dt),
                   p3[3])
        yaw2 == e.yaw + FMulWide(FMulWide(c.rotate_horizontal, c.sensitivity), dt)
        pitch2 == e.pitch + FMulWide(FMulWide(-c.rotate_vertical, c.sensitivity), dt)
    IN [ controller |-> [ c EXCEPT !.rotate_horizontal = 0, !.rotate_vertical = 0 ],
         eye |-> [ position |-> p4, yaw |-> yaw2, pitch |-> ContainPitch(pitch2) ] ]

\* Controller::update_eye for the frame time dt: the controller and the eye
\* after the call.
update_eye(c, e, dt) ==
    LET yaw == sin_cos(e.yaw)
        forward == Normalize(Vec3(yaw.cos, 0, yaw.sin))
        right == Normalize(Vec3(-yaw.sin, 0, yaw.cos))
        p1 == Add3(e.position,
                   ScaleWide3(ScaleWide3(ScaleWide3(forward, c.move_forward - c.move_backward),
                                         c.speed), dt))
        p2 == Add3(p1,
                   ScaleWide3(ScaleWide3(ScaleWide3(right, c.move_right - c.move_left),
                                         c.speed), dt))
        pitch == sin_cos(e.pitch)
        scrollward == Normalize(Vec3(FMul(pitch.cos, yaw.cos), pitch.sin,
                                     FMul(pitch.cos, yaw.sin)))
        p3 == Add3(p2,
                   ScaleWide3(ScaleWide3(ScaleWide3(ScaleWide3(scrollward, c.scroll),
                                                    c.speed), c.sensitivity), dt))
        p4 == Vec3(p3[1],
                   p3[2] + FMulWide(FMulWide(c.move_up - c.move_down, c.speed), dt),
                   p3[3])
        yaw2 == e.yaw + FMulWide(FMulWide(c.rotate_horizontal, c.sensitivity), dt)
        pitch2 == e.pitch + FMulWide(FMulWide(-c.rotate_vertical, c.sensitivity), dt)
    IN [ controller |-> [ c EXCEPT !.scroll = 0, !.rotate_horizontal = 0,
                                   !.rotate_vertical = 0 ],
         eye |-> [ position |-> p4, yaw |-> yaw2, pitch |-> ContainPitch(pitch2) ] ]

\* ------------------------------------------------------------------- state

VARIABLES
    pc,                 \* the place the running call has reached
    generator,          \* "quad" | "icosphere" | "none"
    width, height,      \* Mesh::quad's parameters (fixed-point)
    radius,             \* Mesh::icosphere's radius (fixed-point)
    iterations,         \* Mesh::icosphere's iterations
    use_indices,        \* the use_indices parameter of either generator
    positions,          \* Vec<Vector3<f32>>
    tex_coords,         \* Vec<Vector2<f32>>
    indices,            \* Vec<u32>
    it,                 \* the number of subdivision rounds run so far
    indices_to_split,   \* the marks collected by seam detection
    split_at,           \* how many marks the split loop has consumed
    normals,            \* Vec<Vector3<f32>>
    computed_vectors,   \* the tangent solver's result
    vertices,           \* the packed Vec<MeshVertex>
    index_buffer,       \* Option<Buffer>: NoBuffer or the uploaded indices
    num_elements,       \* Mesh.num_elements
    result,             \* "pending" | "Ok"
    triangles_included, \* the tangent solver's incidence counters
    caller,             \* "none" | "WirePass::new" | "remesh": who awaits the mesh
    wire_radius,        \* WirePass.radius (fixed-point)
    wire_iterations,    \* WirePass.iterations
    mesh,               \* WirePass.mesh: NoMesh before WirePass::new returns
    commands,           \* the draw the render pass of this frame recorded
    mouse_pressed,      \* State.mouse_pressed
    left_button,        \* the state the last left-button device event carried
    using_pointer,      \* Gui.using_pointer
    using_keyboard,     \* Gui.using_keyboard
    camera_controller,  \* State.camera_controller: the fields of Controller
    eye,                \* State.camera: position, yaw and pitch (fixed-point)
    last_render_time,   \* main's last_render_time, counted from the start
    label               \* the text State::ui has drawn

vars == << pc, generator, width, height, radius, iterations, use_indices,
           positions, tex_coords, indices, it, indices_to_split, split_at,
           normals, computed_vectors, vertices, index_buffer, num_elements,
           result, triangles_included, caller, wire_radius, wire_iterations,
           mesh, commands, mouse_pressed, left_button, using_pointer,
           using_keyboard, camera_controller, eye, last_render_time, label >>

\* The state of the application around the generators.
app == << caller, wire_radius, wire_iterations, mesh, commands >>

\* The state of the event loop: input, GUI flags, camera and clock.
loop == << mouse_pressed, left_button, using_pointer, using_keyboard,
           camera_controller, eye, last_render_time >>

\* index_buffer: None.
NoBuffer == << -1 >>
\* WirePass does not exist yet.
NoMesh == [ vertex_buffer |-> << >>, index_buffer |-> NoBuffer, num_elements |-> -1 ]
\* The render pass of this frame has recorded no draw.
NoDraw == [ entry |-> "none" ]

Init ==
    /\ pc = "idle"
    /\ generator = "none"
    /\ width = 0
    /\ height = 0
    /\ radius = 0
    /\ iterations = 0
    /\ use_indices = FALSE
    /\ positions = << >>
    /\ tex_coords = << >>
    /\ indices = << >>
    /\ it = 0
    /\ indices_to_split = << >>
    /\ split_at = 0
    /\ normals = << >>
    /\ computed_vectors = << >>
    /\ vertices = << >>
    /\ index_buffer = NoBuffer
    /\ num_elements = 0
    /\ result = "pending"
    /\ triangles_included = << >>
    /\ caller = "none"
    /\ wire_radius = 0
    /\ wire_iterations = 0
    /\ mesh = NoMesh
    /\ commands = NoDraw
    /\ mouse_pressed = FALSE
    /\ left_button = "Released"
    /\ using_pointer = FALSE
    /\ using_keyboard = FALSE
    /\ camera_controller = ControllerNew(4 * Scale, (4 * Scale) \div 10)
    /\ eye = EyeNew(Vec3(0, 5 * Scale, 10 * Scale), -FRAC_PI_2, -Radians(20))
    /\ last_render_time = 0
    /\ label = << >>

\* ----------------------------------------- calculate_tangents_bitangents

RECURSIVE ScaledDiv(_, _, _)
\* The integer part of a * f / b for a >= 0, b > 0 and f a power of ten,
\* digit by digit so that no intermediate value leaves the integers.
ScaledDiv(a, b, f) ==
    IF f = 1 THEN a \div b
    ELSE (a \div b) * f + ScaledDiv((a % b) * 10, b, f \div 10)

\* The fixed-point value of num * (1 / det), num and det being products of
\* two fixed-point numbers (det # 0).
Quotient(num, det) == Sign(num) * Sign(det) * ScaledDiv(Abs(num), Abs(det), Scale)

\* (a * s - b * t) * r with r = 1.0 / det: infinite or NaN when det = 0.
Solve(a, s, b, t, det) ==
    IF det = 0 THEN NonFinite
    ELSE Vec3(Quotient(a[1] * s - b[1] * t, det),
              Quotient(a[2] * s - b[2] * t, det),
              Quotient(a[3] * s - b[3] * t, det))

\* The tangent and bitangent of the triangle (i0, i1, i2).
TriangleVectors(pos, tex, i0, i1, i2) ==
    LET delta_pos1 == Sub3(pos[i1 + 1], pos[i0 + 1])
        delta_pos2 == Sub3(pos[i2 + 1], pos[i0 + 1])
        delta_uv1 == Sub2(tex[i1 + 1], tex[i0 + 1])
        delta_uv2 == Sub2(tex[i2 + 1], tex[i0 + 1])
        det == delta_uv1[1] * delta_uv2[2] - delta_uv1[2] * delta_uv2[1]
    IN [ tangent |-> Solve(delta_pos1, delta_uv2[2], delta_pos2, delta_uv1[2], det),
         bitangent |-> Solve(delta_pos2, delta_uv1[1], delta_pos1, delta_uv2[1], det) ]

\* computed_vectors and triangles_included before the loop over the triangles.
InitialCounter(i) == i
SolverStart(pos) ==
    [ cv |-> ToVec([ k \in 1..Len(pos) |-> [ tangent |-> Zero3, bitangent |-> Zero3 ] ]),
      included |-> ToVec([ k \in 1..Len(pos) |-> InitialCounter(k - 1) ]) ]

\* One vertex of a triangle takes the triangle's vectors.
Accumulate(acc, i, tv) ==
    [ cv |-> [ acc.cv EXCEPT ![i + 1] =
                 [ tangent |-> AddF(@.tangent, tv.tangent),
                   bitangent |-> AddF(@.bitangent, tv.bitangent) ] ],
      included |-> [ acc.included EXCEPT ![i + 1] = @ + 1 ] ]

\* SolverStep that leaves out the third vertex of the triangle.
SolverStepTwo(acc, pos, tex, idx, t) ==
    LET i0 == idx[t * 3 + 1]
        i1 == idx[t * 3 + 2]
        i2 == idx[t * 3 + 3]
        tv == TriangleVectors(pos, tex, i0, i1, i2)
    IN Accumulate(Accumulate(acc, i0, tv), i1, tv)

\* The body of the loop `for c in indices.chunks(3)` for triangle t (0-based).
SolverStep(acc, pos, tex, idx, t) ==
    LET i0 == idx[t * 3 + 1]
        i1 == idx[t * 3 + 2]
        i2 == idx[t * 3 + 3]
        tv == TriangleVectors(pos, tex, i0, i1, i2)
    IN Accumulate(Accumulate(Accumulate(acc, i0, tv), i1, tv), i2, tv)

RECURSIVE SolverLoop(_, _, _, _, _, _)
\* The loop over triangles lo..hi, in order.
SolverLoop(acc, pos, tex, idx, lo, hi) ==
    IF lo > hi THEN acc
    ELSE IF lo = hi THEN SolverStep(acc, pos, tex, idx, lo)
    ELSE LET mid == (lo + hi) \div 2
             first == SolverLoop(acc, pos, tex, idx, lo, mid)
         IN \* the first half is evaluated before the second half starts
            IF Len(first.included) = Len(pos)
            THEN SolverLoop(first, pos, tex, idx, mid + 1, hi)
            ELSE first

\* (v * denom).normalize() with denom = 1.0 / n: for n = 0 denom is infinite.
Average(v, n) ==
    IF n = 0 \/ ~IsFinite(v) THEN NonFinite
    ELSE Normalize(Vec3(RoundDiv(v[1], n), RoundDiv(v[2], n), RoundDiv(v[3], n)))

\* The accumulators after the loop over the triangles.
Accumulated(pos, tex, idx) ==
    SolverLoop(SolverStart(pos), pos, tex, idx, 0, Len(idx) \div 3 - 1)

\* The loop `for (i, n) in triangles_included.into_iter().enumerate()`.
AverageAll(cv, included) ==
    ToVec([ k \in 1..Len(included) |->
        [ tangent |-> Average(cv[k].tangent, included[k]),
          bitangent |-> Average(cv[k].bitangent, included[k]) ] ])

calculate_tangents_bitangents(pos, tex, idx) ==
    LET acc == Accumulated(pos, tex, idx)
    IN AverageAll(acc.cv, acc.included)

\* The call of the solver, by either generator, up to the end of its loop
\* over the triangles: computed_vectors holds the sums.
SolverTriangles ==
    /\ pc = "tangents"
    /\ LET acc == Accumulated(positions, tex_coords, indices)
       IN /\ computed_vectors' = acc.cv
          /\ triangles_included' = acc.included
    /\ pc' = "average"
    /\ UNCHANGED << loop, label, app, generator, width, height, radius, iterations,
                    use_indices, positions, tex_coords, indices, it,
                    indices_to_split, split_at, normals, vertices,
                    index_buffer, num_elements, result >>

\* The solver's second loop, which consumes the counters, and its return.
SolverAverage ==
    /\ pc = "average"
    /\ computed_vectors' = AverageAll(computed_vectors, triangles_included)
    /\ triangles_included' = << >>
    /\ pc' = "pack"
    /\ UNCHANGED << loop, label, app, generator, width, height, radius, iterations,
                    use_indices, positions, tex_coords, indices, it,
                    indices_to_split, split_at, normals, vertices,
                    index_buffer, num_elements, result >>

\* ------------------------------------------------------------- packing

MeshVertex(position, tex_coord, normal, cv) ==
    [ position |-> position, tex_coords |-> tex_coord, normal |-> normal,
      tangent |-> cv.tangent, bitangent |-> cv.bitangent ]

\* mem::size_of::<f32>().
F32Size == 4
\* mem::size_of::<[f32; n]>().
SizeOfF32Array(n) == n * F32Size

\* The fields of the #[repr(C)] struct MeshVertex, in declaration order,
\* each with the length of its f32 array.
MeshVertexFields ==
    << [ name |-> "position", floats |-> 3 ],
       [ name |-> "tex_coords", floats |-> 2 ],
       [ name |-> "normal", floats |-> 3 ],
       [ name |-> "tangent", floats |-> 3 ],
       [ name |-> "bitangent", floats |-> 3 ] >>

RECURSIVE SizeOfFields(_, _)
\* The size of the first n fields of a #[repr(C)] struct of f32 arrays:
\* every field is 4-byte aligned, so there is no padding.
SizeOfFields(fields, n) ==
    IF n = 0 THEN 0
    ELSE SizeOfFields(fields, n - 1) + SizeOfF32Array(fields[n].floats)

\* mem::size_of::<MeshVertex>().
SizeOfMeshVertex == SizeOfFields(MeshVertexFields, Len(MeshVertexFields))

\* The size in bytes of a wgpu::VertexFormat.
FormatSize(format) ==
    CASE format = "Float32x2" -> 2 * F32Size
      [] format = "Float32x3" -> 3 * F32Size

\* MeshVertex::desc with the offset of the normal taken past 6 floats.
desc_shifted ==
    [ array_stride |-> SizeOfMeshVertex,
      step_mode |-> "Vertex",
      attributes |->
        << [ offset |-> 0, shader_location |-> 0, format |-> "Float32x3" ],
           [ offset |-> SizeOfF32Array(3), shader_location |-> 1, format |-> "Float32x2" ],
           [ offset |-> SizeOfF32Array(6), shader_location |-> 2, format |-> "Float32x3" ],
           [ offset |-> SizeOfF32Array(8), shader_location |-> 3, format |-> "Float32x3" ],
           [ offset |-> SizeOfF32Array(11), shader_location |-> 4, format |-> "Float32x3" ] >> ]

\* MeshVertex::desc.
desc ==
    [ array_stride |-> SizeOfMeshVertex,
      step_mode |-> "Vertex",
      attributes |->
        << [ offset |-> 0, shader_location |-> 0, format |-> "Float32x3" ],
           [ offset |-> SizeOfF32Array(3), shader_location |-> 1, format |-> "Float32x2" ],
           [ offset |-> SizeOfF32Array(5), shader_location |-> 2, format |-> "Float32x3" ],
           [ offset |-> SizeOfF32Array(8), shader_location |-> 3, format |-> "Float32x3" ],
           [ offset |-> SizeOfF32Array(11), shader_location |-> 4, format |-> "Float32x3" ] >> ]

\* The vertex list of the `if use_indices` branch: one vertex per position.
IndexedVertices(pos, tex, nrm, cv) ==
    ToVec([ k \in 1..Len(pos) |-> MeshVertex(pos[k], tex[k], nrm[k], cv[k]) ])

\* FlattenedVertices that forgets the lookup through the index list.
FlattenedVerticesDirect(pos, tex, nrm, cv, idx) ==
    ToVec([ k \in 1..Len(idx) |->
        LET i == ((k - 1) % Len(pos)) + 1
        IN MeshVertex(pos[i], tex[i], nrm[i], cv[i]) ])

\* The vertex list of the else branch: one vertex per index slot.
FlattenedVertices(pos, tex, nrm, cv, idx) ==
    ToVec([ k \in 1..Len(idx) |->
        LET i == idx[k] + 1
        IN MeshVertex(pos[i], tex[i], nrm[i], cv[i]) ])

\* ------------------------------------------------------------ Mesh::quad

SideSet == { w * Scale : w \in 0..MaxSide }

QuadCall ==
    /\ pc = "idle"
    /\ \E w \in SideSet, h \in SideSet, u \in BOOLEAN :
          /\ width' = w
          /\ height' = h
          /\ use_indices' = u
    /\ generator' = "quad"
    /\ pc' = "quad_build"
    /\ UNCHANGED << loop, label, app, triangles_included,
                    radius, iterations, positions, tex_coords, indices, it,
                    indices_to_split, split_at, normals, computed_vectors,
                    vertices, index_buffer, num_elements, result >>

\* QuadPositions with a corner of the quad, not its centre, at the origin.
QuadPositionsCorner(w, h) ==
    << Vec3(0, 0, 0), Vec3(w, 0, 0), Vec3(w, h, 0), Vec3(0, h, 0) >>

QuadPositions(w, h) ==
    << Vec3(FMul(w, -Half), FMul(h, -Half), 0),
       Vec3(FMul(w, Half), FMul(h, -Half), 0),
       Vec3(FMul(w, Half), FMul(h, Half), 0),
       Vec3(FMul(w, -Half), FMul(h, Half), 0) >>

QuadTexCoords == << Vec2(0, 0), Vec2(Scale, 0), Vec2(Scale, Scale), Vec2(0, Scale) >>

QuadIndices == << 0, 1, 2, 2, 3, 0 >>

NORMAL == Vec3(0, 0, Scale)

\* The lists Mesh::quad builds before it calls the solver.
QuadBuild ==
    /\ pc = "quad_build"
    /\ positions' = QuadPositions(width, height)
    /\ tex_coords' = QuadTexCoords
    /\ indices' = QuadIndices
    /\ pc' = "tangents"
    /\ UNCHANGED << loop, label, app, triangles_included,
                    generator, width, height, radius, iterations, use_indices,
                    it, indices_to_split, split_at, normals, computed_vectors,
                    vertices, index_buffer, num_elements, result >>

\* Every vertex of the quad takes the constant NORMAL.
QuadNormals == ToVec([ k \in 1..Len(positions) |-> NORMAL ])

QuadPack ==
    /\ pc = "pack"
    /\ generator = "quad"
    /\ IF use_indices
       THEN /\ vertices' = IndexedVertices(positions, tex_coords, QuadNormals, computed_vectors)
            /\ index_buffer' = indices
            /\ num_elements' = Len(indices)
       ELSE /\ vertices' = FlattenedVertices(positions, tex_coords, QuadNormals,
                                             computed_vectors, indices)
            /\ index_buffer' = NoBuffer
            /\ num_elements' = Len(vertices')
    /\ result' = "Ok"
    /\ pc' = "done"
    /\ UNCHANGED << loop, label, app, triangles_included,
                    generator, width, height, radius, iterations, use_indices,
                    positions, tex_coords, indices, it, indices_to_split,
                    split_at, normals, computed_vectors >>

\* ------------------------------------------------------- Mesh::icosphere

\* The caller's arguments.
RadiusSet == { r * Scale : r \in 0..MaxRadius }
IterationsSet == (0..MaxIterations) \cup { BigIterations }

IcosphereCall ==
    /\ pc = "idle"
    /\ \E r \in RadiusSet, n \in IterationsSet, u \in BOOLEAN :
          /\ radius' = r
          /\ iterations' = n
          /\ use_indices' = u
    /\ generator' = "icosphere"
    /\ pc' = "base"
    /\ UNCHANGED << loop, label, app, triangles_included,
                    width, height, positions, tex_coords, indices, it,
                    indices_to_split, split_at, normals, computed_vectors,
                    vertices, index_buffer, num_elements, result >>

\* The 12 corners of the icosahedron.
IcoPositions ==
    LET sqrt5 == FSqrt(5 * Scale)
        phi == FMul(Scale + sqrt5, Half)
        inv_norm == RoundDiv(Scale * Scale, FSqrt(FMul(phi, phi) + Scale))
        P(x, y, z) == Scale3(Vec3(x, y, z), inv_norm)
        one == Scale
    IN << P(-one, phi, 0), P(one, phi, 0), P(0, one, -phi), P(0, one, phi),
          P(-phi, 0, -one), P(-phi, 0, one), P(phi, 0, -one), P(phi, 0, one),
          P(0, -one, -phi), P(0, -one, phi), P(-one, -phi, 0), P(one, -phi, 0) >>

\* The 20 faces of the icosahedron.
IcoIndices ==
    <<  0,  1,  2,    0,  3,  1,    0,  4,  5,    1,  7,  6,
        1,  6,  2,    1,  3,  7,    0,  2,  4,    0,  5,  3,
        2,  6,  8,    2,  8,  4,    3,  5,  9,    3,  9,  7,
       11,  6,  7,   10,  5,  4,   10,  4,  8,   10,  9,  5,
       11,  8,  6,   11,  7,  9,   10,  8, 11,   10, 11,  9 >>

IcosphereBase ==
    /\ pc = "base"
    /\ positions' = IcoPositions
    /\ indices' = IcoIndices
    /\ it' = 0
    /\ pc' = "tessellate"
    /\ UNCHANGED << loop, label, app, triangles_included,
                    generator, width, height, radius, iterations, use_indices,
                    tex_coords, indices_to_split, split_at, normals,
                    computed_vectors, vertices, index_buffer, num_elements,
                    result >>

\* RoundTriangles without `size *= 4`.
RoundTrianglesStale(idx) == Len(idx) \div 12

\* The number of triangles one round walks: size / 12 with size = 4 * len.
RoundTriangles(idx) == (Len(idx) * 4) \div 12

\* The position the round appends as number k (0-based) of its new ones:
\* triangle k / 3 appends the midpoints of its edges 1-2, 2-3 and 1-3.
Midpoint(pos, idx, k) ==
    LET t == k \div 3
        v1 == pos[idx[t * 3 + 1] + 1]
        v2 == pos[idx[t * 3 + 2] + 1]
        v3 == pos[idx[t * 3 + 3] + 1]
    IN CASE k % 3 = 0 -> Normalize(Add3(v1, v2))
         [] k % 3 = 1 -> Normalize(Add3(v2, v3))
         [] OTHER -> Normalize(Add3(v1, v3))

\* TessellatePositions that drops the third midpoint of every triangle.
TessellatePositionsTwo(pos, idx) ==
    ToVec([ k \in 1..(Len(pos) + 2 * RoundTriangles(idx)) |->
        IF k <= Len(pos) THEN pos[k]
        ELSE Midpoint(pos, idx, 3 * ((k - Len(pos) - 1) \div 2) + ((k - Len(pos) - 1) % 2)) ])

\* positions after one round over the index list idx.
TessellatePositions(pos, idx) ==
    ToVec([ k \in 1..(Len(pos) + 3 * RoundTriangles(idx)) |->
        IF k <= Len(pos) THEN pos[k] ELSE Midpoint(pos, idx, k - Len(pos) - 1) ])

\* TessellateIndices that pushes the central triangle in the opposite order.
TessellateIndicesFlipped(pos, idx) ==
    ToVec([ k \in 1..(12 * RoundTriangles(idx)) |->
        LET t == (k - 1) \div 12
            i1 == idx[t * 3 + 1]
            i2 == idx[t * 3 + 2]
            i3 == idx[t * 3 + 3]
            i1_2 == Len(pos) + 3 * t
            i2_3 == i1_2 + 1
            i1_3 == i1_2 + 2
        IN << i1, i1_2, i1_3,  i2, i2_3, i1_2,
              i3, i1_3, i2_3,  i1_2, i1_3, i2_3 >>[((k - 1) % 12) + 1] ])

\* new_indices after one round: the 12 entries triangle t pushes.
TessellateIndices(pos, idx) ==
    ToVec([ k \in 1..(12 * RoundTriangles(idx)) |->
        LET t == (k - 1) \div 12
            i1 == idx[t * 3 + 1]
            i2 == idx[t * 3 + 2]
            i3 == idx[t * 3 + 3]
            i1_2 == Len(pos) + 3 * t
            i2_3 == i1_2 + 1
            i1_3 == i1_2 + 2
        IN << i1, i1_2, i1_3,  i2, i2_3, i1_2,
              i3, i1_3, i2_3,  i1_2, i2_3, i1_3 >>[((k - 1) % 12) + 1] ])

\* One pass of the loop `for _it in 0..iterations`.
Tessellate ==
    /\ pc = "tessellate"
    /\ it < iterations
    /\ it < MaxIterations
    /\ positions' = TessellatePositions(positions, indices)
    /\ indices' = TessellateIndices(positions, indices)
    /\ it' = it + 1
    /\ UNCHANGED << loop, label, app, triangles_included,
                    pc, generator, width, height, radius, iterations,
                    use_indices, tex_coords, indices_to_split, split_at,
                    normals, computed_vectors, vertices, index_buffer,
                    num_elements, result >>

\* The texture coordinate of one position (the loop at `Generate tex coords`).
TexCoord(pos) ==
    LET r0 == ISqrt(pos[1] * pos[1] + pos[3] * pos[3])
        alpha == Atan2(pos[3], pos[1])
        u == RoundDiv(alpha, Turn \div Scale) + Half
        v == RoundDiv(2 * Atan2(pos[2], r0), Turn \div Scale) + Half
    IN Vec2(Scale - u, Scale - v)

\* GenTexCoords that may leave the tessellation loop before its last round.
GenTexCoordsEarly ==
    /\ pc = "tessellate"
    /\ it <= iterations
    /\ tex_coords' = ToVec([ k \in 1..Len(positions) |-> TexCoord(positions[k]) ])
    /\ pc' = "detect"
    /\ UNCHANGED << loop, label, app, triangles_included,
                    generator, width, height, radius, iterations, use_indices,
                    positions, indices, it, indices_to_split, split_at,
                    normals, computed_vectors, vertices, index_buffer,
                    num_elements, result >>

\* The tessellation loop has ended: one texture coordinate per position.
GenTexCoords ==
    /\ pc = "tessellate"
    /\ it = iterations
    /\ tex_coords' = ToVec([ k \in 1..Len(positions) |-> TexCoord(positions[k]) ])
    /\ pc' = "detect"
    /\ UNCHANGED << loop, label, app, triangles_included,
                    generator, width, height, radius, iterations, use_indices,
                    positions, indices, it, indices_to_split, split_at,
                    normals, computed_vectors, vertices, index_buffer,
                    num_elements, result >>

\* TriangleMarks with `>=` in place of `>` in its three tests.
TriangleMarksInclusive(tex, c0, c1, c2) ==
    LET t0 == tex[c0 + 1]
        t1 == tex[c1 + 1]
        t2 == tex[c2 + 1]
        m1 == IF Abs(t2[1] - t0[1]) >= Half
              THEN << IF t0[1] < Half THEN c0 ELSE c2 >> ELSE << >>
        m2 == IF Abs(t1[1] - t0[1]) >= Half
              THEN << IF t0[1] < Half THEN c0 ELSE c1 >> ELSE << >>
        m3 == IF Abs(t2[1] - t1[1]) >= Half
              THEN << IF t1[1] < Half THEN c1 ELSE c2 >> ELSE << >>
    IN m1 \o m2 \o m3

\* The marks one triangle (c0, c1, c2) pushes, in the order of the three tests.
TriangleMarks(tex, c0, c1, c2) ==
    LET t0 == tex[c0 + 1]
        t1 == tex[c1 + 1]
        t2 == tex[c2 + 1]
        m1 == IF Abs(t2[1] - t0[1]) > Half
              THEN << IF t0[1] < Half THEN c0 ELSE c2 >> ELSE << >>
        m2 == IF Abs(t1[1] - t0[1]) > Half
              THEN << IF t0[1] < Half THEN c0 ELSE c1 >> ELSE << >>
        m3 == IF Abs(t2[1] - t1[1]) > Half
              THEN << IF t1[1] < Half THEN c1 ELSE c2 >> ELSE << >>
    IN m1 \o m2 \o m3

RECURSIVE MarksOfRange(_, _, _, _)
\* The marks of triangles lo..hi (0-based), in triangle order.
MarksOfRange(tex, idx, lo, hi) ==
    IF lo > hi THEN << >>
    ELSE IF lo = hi
         THEN TriangleMarks(tex, idx[lo * 3 + 1], idx[lo * 3 + 2], idx[lo * 3 + 3])
         ELSE LET mid == (lo + hi) \div 2
              IN MarksOfRange(tex, idx, lo, mid) \o MarksOfRange(tex, idx, mid + 1, hi)

\* The detection pass over indices.chunks(3).
SeamMarks(tex, idx) == MarksOfRange(tex, idx, 0, Len(idx) \div 3 - 1)

DetectSeams ==
    /\ pc = "detect"
    /\ indices_to_split' = SeamMarks(tex_coords, indices)
    /\ split_at' = 0
    /\ pc' = "split"
    /\ UNCHANGED << loop, label, app, triangles_included,
                    generator, width, height, radius, iterations, use_indices,
                    positions, tex_coords, indices, it, normals,
                    computed_vectors, vertices, index_buffer, num_elements,
                    result >>

\* OtherAcrossSeam with `&&` in place of `||`.
OtherAcrossSeamBoth(tex, ndx1, ndx2) ==
    tex[ndx1 + 1][1] > Half /\ tex[ndx2 + 1][1] > Half

\* Whether slot j's test `tex_coords[ndx1].x > 0.5 || tex_coords[ndx2].x > 0.5`
\* succeeds, ndx1 and ndx2 being the other two slots of j's triangle.
OtherAcrossSeam(tex, ndx1, ndx2) ==
    tex[ndx1 + 1][1] > Half \/ tex[ndx2 + 1][1] > Half

\* SplitTriangle that redirects every slot that references i.
SplitTriangleAlways(tex, i, new_index, a, b, c) ==
    << IF a = i THEN new_index ELSE a,
       IF b = i THEN new_index ELSE b,
       IF c = i THEN new_index ELSE c >>

\* The three slots of one triangle after the loop over j has passed them,
\* slot by slot: a later slot reads what an earlier one wrote.
SplitTriangle(tex, i, new_index, a, b, c) ==
    LET a1 == IF a = i /\ OtherAcrossSeam(tex, b, c) THEN new_index ELSE a
        b1 == IF b = i /\ OtherAcrossSeam(tex, c, a1) THEN new_index ELSE b
        c1 == IF c = i /\ OtherAcrossSeam(tex, a1, b1) THEN new_index ELSE c
    IN << a1, b1, c1 >>

\* SplitIndices that redirects to the vertex before the new duplicate.
SplitIndicesPrevious(tex, idx, i, new_index) ==
    ToVec([ k \in 1..Len(idx) |->
        LET t == (k - 1) \div 3
        IN SplitTriangle(tex, i, new_index - 1,
                         idx[t * 3 + 1], idx[t * 3 + 2], idx[t * 3 + 3])[((k - 1) % 3) + 1] ])

\* SplitIndices that takes positions.len() itself for the new index.
SplitIndicesNext(tex, idx, i, new_index) ==
    ToVec([ k \in 1..Len(idx) |->
        LET t == (k - 1) \div 3
        IN SplitTriangle(tex, i, new_index + 1,
                         idx[t * 3 + 1], idx[t * 3 + 2], idx[t * 3 + 3])[((k - 1) % 3) + 1] ])

\* indices after the loop `for j in 0..indices.len()` for the marked vertex i.
SplitIndices(tex, idx, i, new_index) ==
    ToVec([ k \in 1..Len(idx) |->
        LET t == (k - 1) \div 3
        IN SplitTriangle(tex, i, new_index,
                         idx[t * 3 + 1], idx[t * 3 + 2], idx[t * 3 + 3])[((k - 1) % 3) + 1] ])

\* SplitVert that also marks the duplicate it has appended.
SplitVertRemarks ==
    /\ pc = "split"
    /\ split_at < Len(indices_to_split)
    /\ LET i == indices_to_split[split_at + 1]
           tex_coord == Vec2(tex_coords[i + 1][1] + Scale, tex_coords[i + 1][2])
       IN /\ positions' = Append(positions, positions[i + 1])
          /\ tex_coords' = Append(tex_coords, tex_coord)
          /\ indices' = indices
    /\ indices_to_split' = Append(indices_to_split, Len(positions))
    /\ split_at' = split_at + 1
    /\ UNCHANGED << loop, label, app, triangles_included,
                    pc, generator, width, height, radius, iterations,
                    use_indices, it, normals,
                    computed_vectors, vertices, index_buffer, num_elements,
                    result >>

\* SplitVert that also shifts the texture coordinate of the marked vertex
\* itself.
SplitVertShiftsOriginal ==
    /\ pc = "split"
    /\ split_at < Len(indices_to_split)
    /\ LET i == indices_to_split[split_at + 1]
           tex_coord == Vec2(tex_coords[i + 1][1] + Scale, tex_coords[i + 1][2])
       IN /\ positions' = Append(positions, positions[i + 1])
          /\ tex_coords' = Append([ tex_coords EXCEPT ![i + 1] = tex_coord ], tex_coord)
          /\ indices' = SplitIndices(tex_coords', indices, i, Len(positions))
    /\ split_at' = split_at + 1
    /\ UNCHANGED << loop, label, app, triangles_included,
                    pc, generator, width, height, radius, iterations,
                    use_indices, it, indices_to_split, normals,
                    computed_vectors, vertices, index_buffer, num_elements,
                    result >>

\* One pass of the loop `for idx in indices_to_split.iter()`.
SplitVert ==
    /\ pc = "split"
    /\ split_at < Len(indices_to_split)
    /\ LET i == indices_to_split[split_at + 1]
           tex_coord == Vec2(tex_coords[i + 1][1] + Scale, tex_coords[i + 1][2])
       IN /\ positions' = Append(positions, positions[i + 1])
          /\ tex_coords' = Append(tex_coords, tex_coord)
          /\ indices' = SplitIndices(tex_coords', indices, i, Len(positions))
    /\ split_at' = split_at + 1
    /\ UNCHANGED << loop, label, app, triangles_included,
                    pc, generator, width, height, radius, iterations,
                    use_indices, it, indices_to_split, normals,
                    computed_vectors, vertices, index_buffer, num_elements,
                    result >>

\* CloneNormals that takes the copy of the positions as they are after the
\* scaling by radius.
CloneNormalsScaled ==
    /\ pc = "split"
    /\ split_at = Len(indices_to_split)
    /\ normals' = ToVec([ k \in 1..Len(positions) |-> Scale3(positions[k], radius) ])
    /\ pc' = "scale"
    /\ UNCHANGED << loop, label, app, triangles_included,
                    generator, width, height, radius, iterations, use_indices,
                    positions, tex_coords, indices, it, indices_to_split,
                    split_at, computed_vectors, vertices, index_buffer,
                    num_elements, result >>

\* `let normals = positions.clone()`.
CloneNormals ==
    /\ pc = "split"
    /\ split_at = Len(indices_to_split)
    /\ normals' = positions
    /\ pc' = "scale"
    /\ UNCHANGED << loop, label, app, triangles_included,
                    generator, width, height, radius, iterations, use_indices,
                    positions, tex_coords, indices, it, indices_to_split,
                    split_at, computed_vectors, vertices, index_buffer,
                    num_elements, result >>

\* ScalePositions that leaves the seam duplicates at unit length.
ScalePositionsStale ==
    /\ pc = "scale"
    /\ positions' = ToVec([ k \in 1..Len(positions) |->
                        IF k <= Len(positions) - Len(indices_to_split)
                        THEN Scale3(positions[k], radius) ELSE positions[k] ])
    /\ pc' = "tangents"
    /\ UNCHANGED << loop, label, app, triangles_included,
                    generator, width, height, radius, iterations, use_indices,
                    tex_coords, indices, it, indices_to_split, split_at,
                    normals, computed_vectors, vertices, index_buffer,
                    num_elements, result >>

\* `positions[i] *= radius` for every i.
ScalePositions ==
    /\ pc = "scale"
    /\ positions' = ToVec([ k \in 1..Len(positions) |-> Scale3(positions[k], radius) ])
    /\ pc' = "tangents"
    /\ UNCHANGED << loop, label, app, triangles_included,
                    generator, width, height, radius, iterations, use_indices,
                    tex_coords, indices, it, indices_to_split, split_at,
                    normals, computed_vectors, vertices, index_buffer,
                    num_elements, result >>

IcospherePack ==
    /\ pc = "pack"
    /\ generator = "icosphere"
    /\ IF use_indices
       THEN /\ vertices' = IndexedVertices(positions, tex_coords, normals, computed_vectors)
            /\ index_buffer' = indices
            /\ num_elements' = Len(indices)
       ELSE /\ vertices' = FlattenedVertices(positions, tex_coords, normals,
                                             computed_vectors, indices)
            /\ index_buffer' = NoBuffer
            /\ num_elements' = Len(vertices')
    /\ result' = "Ok"
    /\ pc' = "done"
    /\ UNCHANGED << loop, label, app, triangles_included,
                    generator, width, height, radius, iterations, use_indices,
                    positions, tex_coords, indices, it, indices_to_split,
                    split_at, normals, computed_vectors >>

\* ------------------------------------------------------------- DrawMesh

\* The mesh a generator has returned.
ReturnedMesh ==
    [ vertex_buffer |-> vertices, index_buffer |-> index_buffer,
      num_elements |-> num_elements ]

\* draw_mesh_instanced with the two draws exchanged.
draw_mesh_instanced_swapped(m, instances) ==
    IF m.index_buffer = NoBuffer
    THEN [ call |-> "draw_indexed", index_format |-> "Uint32",
           first |-> 0, count |-> m.num_elements, base_vertex |-> 0,
           instances |-> instances ]
    ELSE [ call |-> "draw", first |-> 0, count |-> m.num_elements,
           instances |-> instances ]

\* The draw that draw_mesh_instanced records for the mesh m: `match
\* &mesh.index_buffer`.  instances is the pair << start, end >> of a Range.
draw_mesh_instanced(m, instances) ==
    IF m.index_buffer # NoBuffer
    THEN [ call |-> "draw_indexed", index_format |-> "Uint32",
           first |-> 0, count |-> m.num_elements, base_vertex |-> 0,
           instances |-> instances ]
    ELSE [ call |-> "draw", first |-> 0, count |-> m.num_elements,
           instances |-> instances ]

\* draw_mesh: the same draw for the instances 0..1.
draw_mesh(m) == draw_mesh_instanced(m, << 0, 1 >>)

\* What a render pass holds after a method of DrawMesh was called on it.
Recorded(entry, draw) == [ entry |-> entry, draw |-> draw ]

\* WirePass::new: NUM_INSTANCES_PER_DIM * NUM_INSTANCES_PER_DIM instances.
NUM_INSTANCES_PER_DIM == 10
NumInstances == NUM_INSTANCES_PER_DIM * NUM_INSTANCES_PER_DIM

\* A render pass draws the mesh a direct call of a generator returned, the
\* way DisplacePass::render (draw_mesh) or WirePass::render
\* (draw_mesh_instanced) does.
DrawReturned ==
    /\ pc = "done"
    /\ caller = "none"
    /\ commands = NoDraw
    /\ \/ commands' = Recorded("draw_mesh", draw_mesh(ReturnedMesh))
       \/ \E n \in { 0, NumInstances } :
             commands' = Recorded("draw_mesh_instanced",
                                  draw_mesh_instanced(ReturnedMesh, << 0, n >>))
    /\ UNCHANGED << pc, generator, width, height, radius, iterations,
                    use_indices, positions, tex_coords, indices, it,
                    indices_to_split, split_at, normals, computed_vectors,
                    vertices, index_buffer, num_elements, result,
                    triangles_included, caller, wire_radius, wire_iterations,
                    mesh, loop, label >>

\* ------------------------------------------------------------- WirePass

\* The entry of Mesh::icosphere(radius, iterations, use_indices): its
\* locals are fresh.
CallIcosphere(r, n, u) ==
    /\ generator' = "icosphere"
    /\ radius' = r
    /\ iterations' = n
    /\ use_indices' = u
    /\ positions' = << >>
    /\ tex_coords' = << >>
    /\ indices' = << >>
    /\ it' = 0
    /\ indices_to_split' = << >>
    /\ split_at' = 0
    /\ normals' = << >>
    /\ computed_vectors' = << >>
    /\ triangles_included' = << >>
    /\ vertices' = << >>
    /\ index_buffer' = NoBuffer
    /\ num_elements' = 0
    /\ result' = "pending"
    /\ pc' = "base"

\* WirePass::new up to its call of Mesh::icosphere(radius, iterations, false)
\* with radius = 1.0 and iterations = 2.
WirePassNew ==
    /\ pc = "idle"
    /\ caller = "none"
    /\ wire_radius' = Scale
    /\ wire_iterations' = 2
    /\ caller' = "WirePass::new"
    /\ CallIcosphere(wire_radius', wire_iterations', FALSE)
    /\ UNCHANGED << width, height, mesh, commands, loop, label >>

\* The generator has returned to WirePass::new: `.unwrap()` and `Self { mesh, .. }`.
WirePassNewReturn ==
    /\ pc = "done"
    /\ caller = "WirePass::new"
    /\ result = "Ok"
    /\ mesh' = ReturnedMesh
    /\ caller' = "none"
    /\ pc' = "ui"
    /\ UNCHANGED << generator, width, height, radius, iterations, use_indices,
                    positions, tex_coords, indices, it, indices_to_split,
                    split_at, normals, computed_vectors, vertices,
                    index_buffer, num_elements, result, triangles_included,
                    wire_radius, wire_iterations, commands, loop, label >>

\* The text of `ui.label(format!("Mouse pressed?: {}", self.mouse_pressed))`.
LabelText(pressed) == << "Mouse pressed?: ", pressed >>

\* State::ui that moves the slider and does not call remesh.
ui_forgets_remesh ==
    /\ pc = "ui"
    /\ \E r \in RadiusSet :
          /\ wire_radius' = r
          /\ commands' = NoDraw
          /\ UNCHANGED << pc, generator, width, height, radius, iterations,
                          use_indices, positions, tex_coords, indices, it,
                          indices_to_split, split_at, normals,
                          computed_vectors, vertices, index_buffer,
                          num_elements, result, triangles_included, caller,
                          wire_iterations, mesh >>
    /\ label' = LabelText(mouse_pressed)
    /\ UNCHANGED loop

\* State::ui in the frame that begins: the label is drawn and the slider
\* sets WirePass.radius to a value of its range; if that changed it,
\* WirePass::remesh is called, which calls Mesh::icosphere(self.radius,
\* self.iterations, false).
ui ==
    /\ pc = "ui"
    /\ \E r \in RadiusSet :
          /\ wire_radius' = r
          /\ commands' = NoDraw
          /\ IF r # wire_radius
             THEN /\ caller' = "remesh"
                  /\ CallIcosphere(r, wire_iterations, FALSE)
                  /\ UNCHANGED << width, height, wire_iterations, mesh >>
             ELSE UNCHANGED << pc, generator, width, height, radius,
                               iterations, use_indices, positions, tex_coords,
                               indices, it, indices_to_split, split_at,
                               normals, computed_vectors, vertices,
                               index_buffer, num_elements, result,
                               triangles_included, caller, wire_iterations,
                               mesh >>
    /\ label' = LabelText(mouse_pressed)
    /\ UNCHANGED loop

\* The generator has returned to WirePass::remesh: `self.mesh = ...unwrap()`.
remesh ==
    /\ pc = "done"
    /\ caller = "remesh"
    /\ result = "Ok"
    /\ mesh' = ReturnedMesh
    /\ caller' = "none"
    /\ pc' = "ui"
    /\ UNCHANGED << generator, width, height, radius, iterations, use_indices,
                    positions, tex_coords, indices, it, indices_to_split,
                    split_at, normals, computed_vectors, vertices,
                    index_buffer, num_elements, result, triangles_included,
                    wire_radius, wire_iterations, commands, loop, label >>

\* WirePass::render: the mesh is drawn once for every instance.
WireRender ==
    /\ pc = "ui"
    /\ commands = NoDraw
    /\ commands' = Recorded("draw_mesh_instanced",
                            draw_mesh_instanced(mesh, << 0, NumInstances >>))
    /\ UNCHANGED << pc, generator, width, height, radius, iterations,
                    use_indices, positions, tex_coords, indices, it,
                    indices_to_split, split_at, normals, computed_vectors,
                    vertices, index_buffer, num_elements, result,
                    triangles_included, caller, wire_radius, wire_iterations,
                    mesh, loop, label >>

\* ----------------------------------------------------------- event loop

ElementStates == { "Pressed", "Released" }
\* The key codes of the keyboard events: a key of process_keyboard, a key it
\* does not handle, and an event without a virtual key code.
KeyCodes == { "W", "Space", "None" }
\* The buttons of the button events: 1 is the left one.
Buttons == { 1, 3 }
\* The raw mouse movement of a motion event, in both directions.
MouseDelta == 300 * Scale
\* The amounts of the wheel events: half a line and the pixels of half a
\* line.
WheelLine == Scale \div 2
WheelPixels == 50 * Scale
\* The time between two frames at 60 frames a second.
Tick == 167

\* A winit DeviceEvent.  Every event carries all fields; the ones its kind
\* does not have are 0 (or "none").
Event(kind, key, state, button, dx, dy, unit) ==
    [ kind |-> kind, virtual_keycode |-> key, state |-> state,
      button |-> button, delta |-> << dx, dy >>, unit |-> unit ]

KeyEvents ==
    { Event("Key", k, st, 0, 0, 0, "none") : k \in KeyCodes, st \in ElementStates }
ButtonEvents ==
    { Event("Button", "None", st, b, 0, 0, "none") : b \in Buttons, st \in ElementStates }
MouseMotionEvents ==
    { Event("MouseMotion", "None", "Released", 0, d, d, "none") :
        d \in { MouseDelta, -MouseDelta } }
MouseWheelEvents ==
    { Event("MouseWheel", "None", "Released", 0, 0, WheelLine, "LineDelta"),
      Event("MouseWheel", "None", "Released", 0, 0, WheelPixels, "PixelDelta") }
\* An event of a kind neither main nor State::input names.
OtherEvents == { Event("Added", "None", "Released", 0, 0, 0, "none") }
DeviceEvents ==
    KeyEvents \cup ButtonEvents \cup MouseMotionEvents \cup MouseWheelEvents
        \cup OtherEvents

\* State::input: the controller and mouse_pressed after the call.
input(c, pressed, event) ==
    CASE event.kind = "Key" /\ event.virtual_keycode # "None" ->
             [ camera_controller |-> process_keyboard(c, event.virtual_keycode, event.state),
               mouse_pressed |-> pressed ]
      [] event.kind = "MouseWheel" ->
             [ camera_controller |-> process_scroll(c, event.unit, event.delta[2]),
               mouse_pressed |-> pressed ]
      [] event.kind = "Button" /\ event.button = 1 ->
             [ camera_controller |-> c,
               mouse_pressed |-> (event.state = "Pressed") ]
      [] event.kind = "MouseMotion" ->
             [ camera_controller |->
                   IF pressed THEN process_mouse(c, event.delta[1], event.delta[2]) ELSE c,
               mouse_pressed |-> pressed ]
      [] OTHER -> [ camera_controller |-> c, mouse_pressed |-> pressed ]

\* PassedToInput that hands every event to State::input.
PassedToInputAlways(event) == TRUE

\* Whether main's `Event::DeviceEvent` arm calls state.input(event): not for
\* a key while the GUI uses the keyboard, nor for a button, a motion or a
\* wheel event while it uses the pointer.
PassedToInput(event) ==
    CASE event.kind = "Key" -> ~using_keyboard
      [] event.kind \in { "Button", "MouseMotion", "MouseWheel" } -> ~using_pointer
      [] OTHER -> TRUE

\* The scene: the generators' variables, the wire pass and the draws.  A
\* device event does not touch it; the frames that rebuild and draw it are
\* the steps ui, remesh and WireRender.
scene ==
    << pc, generator, width, height, radius, iterations, use_indices,
       positions, tex_coords, indices, it, indices_to_split, split_at,
       normals, computed_vectors, vertices, index_buffer, num_elements,
       result, triangles_included, caller, wire_radius, wire_iterations,
       mesh, commands >>

\* The device delivers the event and main's `Event::DeviceEvent` arm
\* handles it.
DeviceEventOf(event) ==
    /\ left_button' = IF event.kind = "Button" /\ event.button = 1
                      THEN event.state ELSE left_button
    /\ IF PassedToInput(event)
       THEN LET after == input(camera_controller, mouse_pressed, event)
            IN /\ camera_controller' = after.camera_controller
               /\ mouse_pressed' = after.mouse_pressed
       ELSE UNCHANGED << camera_controller, mouse_pressed >>
    /\ UNCHANGED << scene, using_pointer, using_keyboard, eye,
                    last_render_time, label >>

DeviceEvent == \E event \in DeviceEvents : DeviceEventOf(event)

\* main's `Event::RedrawRequested` arm for a frame that takes the time dt
\* and in which egui wants the pointer (keyboard) or not, as far as input
\* and camera go: gui.update draws the label of State::ui and reads
\* egui's flags, state.update moves the camera.
RedrawRequestedOf(dt, wants_pointer, wants_keyboard) ==
    /\ last_render_time + dt <= MaxFrames * Tick
    /\ last_render_time' = last_render_time + dt
    /\ label' = LabelText(mouse_pressed)
    /\ using_pointer' = wants_pointer
    /\ using_keyboard' = wants_keyboard
    /\ LET after == update_eye(camera_controller, eye, dt)
       IN /\ camera_controller' = after.controller
          /\ eye' = after.eye
    /\ UNCHANGED << scene, mouse_pressed, left_button >>

RedrawRequested ==
    \E dt \in { 0, Tick }, wants_pointer \in BOOLEAN, wants_keyboard \in BOOLEAN :
        RedrawRequestedOf(dt, wants_pointer, wants_keyboard)

Next ==
    \/ IcosphereCall
    \/ IcosphereBase
    \/ Tessellate
    \/ GenTexCoords
    \/ DetectSeams
    \/ SplitVert
    \/ CloneNormals
    \/ ScalePositions
    \/ SolverTriangles
    \/ SolverAverage
    \/ IcospherePack
    \/ QuadCall
    \/ QuadBuild
    \/ QuadPack
    \/ DrawReturned
    \/ WirePassNew
    \/ WirePassNewReturn
    \/ ui
    \/ remesh
    \/ WireRender

Spec == Init /\ [][Next]_vars

\* The event loop by itself, from the state in which State and Gui were
\* constructed: device events and frames in any order.
EventNext ==
    \/ DeviceEvent
    \/ RedrawRequested

EventSpec == Init /\ [][EventNext]_vars

\* The steps of a running call of a generator.
Generate ==
    \/ IcosphereBase
    \/ Tessellate
    \/ GenTexCoords
    \/ DetectSeams
    \/ SplitVert
    \/ CloneNormals
    \/ ScalePositions
    \/ SolverTriangles
    \/ SolverAverage
    \/ IcospherePack
    \/ QuadBuild
    \/ QuadPack

\* The places of a call that has started and not returned, in the order in
\* which a call passes them (Mesh::quad enters at "quad_build").
Phases ==
    << "base", "tessellate", "detect", "split", "scale", "quad_build",
       "tangents", "average", "pack", "done" >>
Running == { Phases[k] : k \in 1..(Len(Phases) - 1) }

\* Whether the running call has a statement to execute, that is, whether a
\* step of Generate is enabled: at every place but the two loops the next
\* statement is; the loops take another pass or end.  Only the rounds
\* beyond MaxIterations are not run.
CanStep ==
    /\ pc \in Running
    /\ pc = "tessellate" => (it = iterations \/ (it < iterations /\ it < MaxIterations))
    /\ pc = "split" => split_at <= Len(indices_to_split)
    /\ pc = "pack" => generator \in { "quad", "icosphere" }

\* A generator is a synchronous function on one thread: a call that has
\* started keeps running while it has a statement to execute.  This is the
\* weak fairness of Generate, WF_vars(Generate), with ENABLED <<Generate>>_vars
\* written as CanStep; the steps taken at a place of Running are the steps
\* of Generate.
FairSpec == Spec /\ ([]<>~CanStep \/ []<><<pc \in Running /\ Generate>>_vars)

\* ------------------------------------------------------------- properties

\* How far, in units of 1 / Scale, the length of a rounded unit vector may
\* lie from 1.
Tolerance == 2

\* The places of Mesh::icosphere after the split loop has ended.
AfterSeam == { "scale", "tangents", "average", "pack", "done" }
\* The places of Mesh::icosphere after the positions were scaled.
AfterScale == { "tangents", "average", "pack", "done" }

\* Whether the length of v is len, within the tolerance of the fixed-point
\* numbers (a vector scaled by the radius carries the radius's share of it).
HasLength(v, len) ==
    IsFinite(v) /\ Abs(Magnitude(v) - len) <= Tolerance * (len \div Scale + 1)

\* C1: after `it` subdivision rounds the index list of Mesh::icosphere holds
\* 60 * 4^it entries, so 60 * 4^iterations entries (20 * 4^iterations
\* triangles) when the rounds have ended and seam resolution has not begun;
\* its length is a multiple of 3 after every round; and with iterations = 0
\* it is the 60-entry table of the icosahedron.
C1_IndexCount ==
    /\ Len(indices) % 3 = 0
    /\ (generator = "icosphere" /\ pc = "tessellate") => Len(indices) = 60 * 4 ^ it
    /\ (generator = "icosphere" /\ pc = "detect") =>
          /\ Len(indices) = 60 * 4 ^ iterations
          /\ Len(indices) \div 3 = 20 * 4 ^ iterations
          /\ iterations = 0 => indices = IcoIndices

C1_Witness ==
    /\ generator = "icosphere"
    /\ pc = "detect"
    /\ iterations = 3
    /\ Len(indices) = 3840

\* Whether the three U coordinates of triangle t (0-based) lie within 0.5 of
\* one another.
TriangleWithinHalf(tex, idx, t) ==
    LET u0 == tex[idx[t * 3 + 1] + 1][1]
        u1 == tex[idx[t * 3 + 2] + 1][1]
        u2 == tex[idx[t * 3 + 3] + 1][1]
    IN Abs(u2 - u0) <= Half /\ Abs(u1 - u0) <= Half /\ Abs(u2 - u1) <= Half

\* C2: once the split loop of Mesh::icosphere has ended, no triangle has two
\* vertices whose U coordinates differ by more than 0.5, and the detection
\* pass run again over the resolved lists marks nothing.
C2_SeamResolved ==
    (generator = "icosphere" /\ pc \in AfterSeam) =>
        /\ \A t \in 0..(Len(indices) \div 3 - 1) : TriangleWithinHalf(tex_coords, indices, t)
        /\ SeamMarks(tex_coords, indices) = << >>

C2_Witness ==
    /\ generator = "icosphere"
    /\ pc = "scale"
    /\ iterations = 2
    /\ Len(indices_to_split) > 0
    /\ \E k \in 1..Len(indices) : indices[k] >= Len(positions) - Len(indices_to_split)

\* The normals a generator packs.
PackedNormals == IF generator = "quad" THEN QuadNormals ELSE normals

\* C3: a call with use_indices = false has no index buffer, as many vertices
\* as the index list has entries, and as its k-th vertex the vertex that the
\* indexed branch packs at position indices[k]; a call with use_indices =
\* true packs one vertex per position and uploads the index list; both
\* report the length of the index list as num_elements.
C3_Flatten ==
    pc = "done" =>
        LET indexed == IndexedVertices(positions, tex_coords, PackedNormals, computed_vectors)
        IN /\ num_elements = Len(indices)
           /\ use_indices =>
                 /\ vertices = indexed
                 /\ index_buffer = indices
           /\ ~use_indices =>
                 /\ index_buffer = NoBuffer
                 /\ Len(vertices) = Len(indices)
                 /\ \A k \in 1..Len(indices) : vertices[k] = indexed[indices[k] + 1]

C3_Witness ==
    /\ pc = "done"
    /\ generator = "icosphere"
    /\ ~use_indices
    /\ iterations = 1
    /\ index_buffer = NoBuffer
    /\ Len(vertices) = 240
    /\ Len(positions) < Len(vertices)

\* C4: Mesh::icosphere called with radius <= 0 allocates no list and returns
\* the error InvalidParameter, never a mesh.
C4_RadiusRejected ==
    (generator = "icosphere" /\ radius <= 0 /\ pc # "base") =>
        /\ result = "InvalidParameter"
        /\ positions = << >>
        /\ indices = << >>
        /\ vertices = << >>

\* C5: Mesh::icosphere called with iterations above the sane bound of 6 runs
\* no subdivision round: it appends no position to the 12 of the base solid,
\* rebuilds no index list and returns the error ResourceLimitExceeded.
C5_IterationsRejected ==
    (generator = "icosphere" /\ iterations > 6 /\ pc # "base") =>
        /\ result = "ResourceLimitExceeded"
        /\ it = 0
        /\ Len(positions) <= 12
        /\ Len(indices) <= 60

\* C6: Mesh::quad called with width <= 0 or height <= 0 returns the error
\* InvalidParameter and no mesh.
C6_SideRejected ==
    (generator = "quad" /\ (width <= 0 \/ height <= 0) /\ pc = "done") =>
        /\ result = "InvalidParameter"
        /\ vertices = << >>

\* The number of positions before the round that made the index list idx
\* what it is after `n` rounds (n >= 1).
PositionsBeforeRound(n) == 12 + 20 * (4 ^ (n - 1) - 1)

\* C7: after `it` rounds Mesh::icosphere holds 12 + 20 * (4^it - 1)
\* positions, 3 more per triangle of the round's index list, and every
\* position a round appended is referenced only by the 12 index entries of
\* the triangle it was appended for: no midpoint is shared.
C7_PositionCount ==
    (generator = "icosphere" /\ pc \in { "tessellate", "detect" }) =>
        /\ Len(positions) = 12 + 20 * (4 ^ it - 1)
        /\ it >= 1 =>
              /\ Len(positions) = PositionsBeforeRound(it) + 3 * (Len(indices) \div 12)
              /\ \A k \in 1..Len(indices) :
                    indices[k] >= PositionsBeforeRound(it) =>
                        (indices[k] - PositionsBeforeRound(it)) \div 3 = (k - 1) \div 12

C7_Witness ==
    /\ generator = "icosphere"
    /\ pc = "detect"
    /\ iterations = 3
    /\ Len(positions) = 1272

\* C8: for width w > 0 and height h > 0 the indexed Mesh::quad has 4
\* vertices and the indices 0,1,2, 2,3,0; its corners are (-w/2,-h/2,0),
\* (w/2,-h/2,0), (w/2,h/2,0), (-w/2,h/2,0) with the texture coordinates
\* (0,0), (1,0), (1,1), (0,1), and every normal is (0,0,1).
C8_Quad ==
    (pc = "done" /\ generator = "quad" /\ use_indices /\ width > 0 /\ height > 0) =>
        LET w2 == width \div 2
            h2 == height \div 2
        IN /\ Len(vertices) = 4
           /\ index_buffer = << 0, 1, 2, 2, 3, 0 >>
           /\ vertices[1].position = << -w2, -h2, 0 >>
           /\ vertices[2].position = << w2, -h2, 0 >>
           /\ vertices[3].position = << w2, h2, 0 >>
           /\ vertices[4].position = << -w2, h2, 0 >>
           /\ vertices[1].tex_coords = << 0, 0 >>
           /\ vertices[2].tex_coords = << Scale, 0 >>
           /\ vertices[3].tex_coords = << Scale, Scale >>
           /\ vertices[4].tex_coords = << 0, Scale >>
           /\ \A k \in 1..4 : vertices[k].normal = << 0, 0, Scale >>

C8_Witness ==
    /\ pc = "done"
    /\ generator = "quad"
    /\ use_indices
    /\ width = 2 * Scale
    /\ height = 2 * Scale
    /\ vertices[3].position = << Scale, Scale, 0 >>
    /\ vertices[1].position = << -Scale, -Scale, 0 >>

\* C9: every vertex a generator emits for accepted parameters (positive
\* width and height, positive radius) has a normal, a tangent and a
\* bitangent of length 1, none of them zero or non-finite.
C9_UnitVectors ==
    (/\ pc = "done"
     /\ generator = "quad" => (width > 0 /\ height > 0)
     /\ generator = "icosphere" => radius > 0) =>
        \A k \in 1..Len(vertices) :
            /\ HasLength(vertices[k].normal, Scale)
            /\ HasLength(vertices[k].tangent, Scale)
            /\ HasLength(vertices[k].bitangent, Scale)

\* C10: every position of Mesh::icosphere is a unit vector until the
\* positions are scaled, and from then on it is the unit vector kept in
\* normals scaled by radius once, at distance radius from the origin; so
\* is every position packed into a vertex.
C10_OnSphere ==
    generator = "icosphere" =>
        /\ pc \in { "tessellate", "detect", "split", "scale" } =>
              \A k \in 1..Len(positions) : HasLength(positions[k], Scale)
        /\ pc \in AfterScale =>
              /\ Len(positions) = Len(normals)
              /\ \A k \in 1..Len(positions) :
                    /\ HasLength(normals[k], Scale)
                    /\ positions[k] = Scale3(normals[k], radius)
                    /\ HasLength(positions[k], radius)
        /\ pc = "done" =>
              \A k \in 1..Len(vertices) : HasLength(vertices[k].position, radius)

C10_Witness ==
    /\ generator = "icosphere"
    /\ pc = "done"
    /\ use_indices
    /\ radius = 2 * Scale
    /\ iterations = 2
    /\ Len(indices_to_split) > 0
    /\ Len(vertices) = Len(positions)
    /\ HasLength(vertices[Len(vertices)].position, 2 * Scale)

\* The mesh the recorded draw was made for.
DrawnMesh == IF pc = "ui" THEN mesh ELSE ReturnedMesh

\* C11: the draw recorded for a mesh with an index buffer is an indexed draw
\* over 0..num_elements, num_elements being the length of the index list;
\* for a mesh without one it is a non-indexed draw over 0..num_elements,
\* num_elements being the number of flattened vertices; and draw_mesh
\* records that draw for the instances 0..1.
C11_Draw ==
    commands # NoDraw =>
        LET m == DrawnMesh
            d == commands.draw
        IN /\ d.first = 0
           /\ d.count = m.num_elements
           /\ m.index_buffer # NoBuffer =>
                 /\ d.call = "draw_indexed"
                 /\ m.num_elements = Len(m.index_buffer)
           /\ m.index_buffer = NoBuffer =>
                 /\ d.call = "draw"
                 /\ m.num_elements = Len(m.vertex_buffer)
           /\ commands.entry = "draw_mesh" => d.instances = << 0, 1 >>

C11_Witness ==
    /\ pc = "done"
    /\ generator = "icosphere"
    /\ use_indices
    /\ iterations = 1
    /\ commands # NoDraw
    /\ commands.entry = "draw_mesh"
    /\ commands.draw.call = "draw_indexed"
    /\ commands.draw.count = 240
    /\ Len(vertices) # 240

\* The wire pass at rest: its mesh is what the last call of Mesh::icosphere
\* returned, that call was made with the current radius and iterations and
\* use_indices = false, and the mesh is the flattened output of all of its
\* phases for these values.
C12_AtRest ==
    pc = "ui" =>
        /\ generator = "icosphere"
        /\ radius = wire_radius
        /\ iterations = wire_iterations
        /\ ~use_indices
        /\ it = wire_iterations
        /\ split_at = Len(indices_to_split)
        /\ mesh = ReturnedMesh
        /\ mesh.index_buffer = NoBuffer
        /\ mesh.num_elements = 60 * 4 ^ wire_iterations
        /\ mesh.vertex_buffer =
              FlattenedVertices(positions, tex_coords, normals, computed_vectors, indices)
        /\ \A k \in 1..Len(mesh.vertex_buffer) :
              /\ HasLength(mesh.vertex_buffer[k].normal, Scale)
              /\ mesh.vertex_buffer[k].position =
                    Scale3(mesh.vertex_buffer[k].normal, wire_radius)

\* A step of the wire pass: the mesh changes only by being replaced with the
\* mesh a finished call returned, and a change of the radius starts a call
\* of Mesh::icosphere with fresh lists and the new radius.
C12_Step ==
    /\ mesh' # mesh =>
          /\ pc = "done"
          /\ caller \in { "WirePass::new", "remesh" }
          /\ mesh' = ReturnedMesh
    /\ (pc = "ui" /\ wire_radius' # wire_radius) =>
          /\ pc' = "base"
          /\ caller' = "remesh"
          /\ radius' = wire_radius'
          /\ iterations' = wire_iterations
          /\ positions' = << >>
          /\ indices' = << >>
          /\ vertices' = << >>
          /\ mesh' = mesh

\* C12: after any sequence of radius edits the wire pass's mesh is the one a
\* full run of Mesh::icosphere produces for the current radius and
\* iterations: every change of the radius starts a complete run whose result
\* replaces the mesh, and the mesh is never changed in any other way.
C12_Remesh == []C12_AtRest /\ [][C12_Step]_vars

C12_Witness ==
    /\ pc = "ui"
    /\ wire_radius = 2 * Scale
    /\ mesh # NoMesh
    /\ Len(mesh.vertex_buffer) = 960
    /\ HasLength(mesh.vertex_buffer[960].position, 2 * Scale)
    /\ commands # NoDraw

PhaseRank(p) == CHOOSE k \in 1..Len(Phases) : Phases[k] = p

\* What the loops of the place a call is at have left to do: subdivision
\* rounds, resp. marks of the split loop.
LoopsLeft == (iterations - it) + (Len(indices_to_split) - split_at)

\* Every step of a running call either moves to a later place or shortens
\* the loop of its place; the split loop never changes the marks.
C13_Progress ==
    pc \in Running =>
        /\ pc' \in Running \cup { "done" }
        /\ \/ PhaseRank(pc') > PhaseRank(pc)
           \/ PhaseRank(pc') = PhaseRank(pc) /\ LoopsLeft' < LoopsLeft
        /\ pc = "split" => indices_to_split' = indices_to_split

\* Nothing of the mesh exists while the call runs.
C13_NoPartialMesh ==
    pc \in Running =>
        /\ result = "pending"
        /\ vertices = << >>
        /\ index_buffer = NoBuffer
        /\ num_elements = 0

\* C13: every call of Mesh::icosphere and Mesh::quad runs to completion:
\* each step of a call advances it (the subdivision, detection, split and
\* tangent passes are loops over lists that they do not extend, and the
\* split loop walks the marks detection collected once), a call whose
\* rounds are run in full reaches its end, and the mesh is produced only
\* there.
C13_Terminates ==
    /\ [][C13_Progress]_vars
    /\ []C13_NoPartialMesh
    /\ (pc \in Running /\ iterations <= MaxIterations) ~> (pc = "done" /\ result = "Ok")

C13_Witness ==
    /\ pc = "done"
    /\ generator = "icosphere"
    /\ iterations = 3
    /\ Len(indices_to_split) = 90
    /\ split_at = 90
    /\ result = "Ok"
    /\ Len(vertices) > 0

RECURSIVE SizeBefore(_, _)
\* The sum of the sizes of the attributes before attribute k.
SizeBefore(attributes, k) ==
    IF k = 1 THEN 0
    ELSE SizeBefore(attributes, k - 1) + FormatSize(attributes[k - 1].format)

\* The floats of a packed vertex, field by field in the order of the struct.
FloatsOf(v) == << v.position, v.tex_coords, v.normal, v.tangent, v.bitangent >>

\* C14: MeshVertex::desc declares 5 per-vertex attributes at the shader
\* locations 0..4, in the order position (3 floats), tex_coord (2), normal
\* (3), tangent (3), bitangent (3); the offset of each is the sum of the
\* sizes of those before it (0, 12, 20, 32, 44) and the array stride is 56
\* bytes, the size of the five fields of a packed vertex.
C14_Layout ==
    LET a == desc.attributes
    IN /\ Len(a) = 5
       /\ desc.step_mode = "Vertex"
       /\ \A k \in 1..Len(a) :
             /\ a[k].shader_location = k - 1
             /\ a[k].offset = SizeBefore(a, k)
             /\ FormatSize(a[k].format) = SizeOfF32Array(MeshVertexFields[k].floats)
       /\ << a[1].format, a[2].format, a[3].format, a[4].format, a[5].format >>
             = << "Float32x3", "Float32x2", "Float32x3", "Float32x3", "Float32x3" >>
       /\ << a[1].offset, a[2].offset, a[3].offset, a[4].offset, a[5].offset >>
             = << 0, 12, 20, 32, 44 >>
       /\ desc.array_stride = 56
       /\ desc.array_stride = SizeBefore(a, 5) + FormatSize(a[5].format)
       /\ \A i \in 1..Len(vertices) : \A k \in 1..Len(a) :
             LET field == FloatsOf(vertices[i])[k]
             IN field # NonFinite => SizeOfF32Array(Len(field)) = FormatSize(a[k].format)

C14_Witness ==
    /\ pc = "done"
    /\ generator = "quad"
    /\ width > 0
    /\ height > 0
    /\ Len(vertices) = 4
    /\ \A k \in 1..5 : FloatsOf(vertices[4])[k] # NonFinite
    /\ SizeOfF32Array(Len(vertices[4].position) + Len(vertices[4].tex_coords)
                       + Len(vertices[4].normal) + Len(vertices[4].tangent)
                       + Len(vertices[4].bitangent)) = desc.array_stride

\* The number of positions when seam detection starts.
PositionsBeforeSeam == 12 + 20 * (4 ^ iterations - 1)
\* The vertices that seam detection marked.
MarkedVertices == { indices_to_split[k] : k \in 1..Len(indices_to_split) }

\* C15: seam resolution of Mesh::icosphere appends one duplicate for every
\* marked vertex: when the split loop has ended, the number of vertices it
\* appended is the number of distinct marked vertices, however often a
\* vertex was marked, and every duplicate has the position of a marked
\* vertex and its texture coordinate moved by 1.0 in U.
C15_OnePerMarkedVertex ==
    (generator = "icosphere" /\ pc = "scale" /\ radius > 0) =>
        /\ Len(positions) - PositionsBeforeSeam = Cardinality(MarkedVertices)
        /\ \A d \in (PositionsBeforeSeam + 1)..Len(positions) :
              \E i \in MarkedVertices :
                  /\ positions[d] = positions[i + 1]
                  /\ tex_coords[d] = Vec2(tex_coords[i + 1][1] + Scale, tex_coords[i + 1][2])

\* The vertex referenced by the slot that lies n places after slot k
\* (1-based) within k's triangle, cyclically.
OtherVertex(idx, k, n) == idx[((k - 1 + n) % 3) + ((k - 1) \div 3) * 3 + 1]

\* Whether one of the other two vertices of slot k's triangle has U > 0.5.
OtherHasLargeU(tex, idx, k) ==
    \/ tex[OtherVertex(idx, k, 1) + 1][1] > Half
    \/ tex[OtherVertex(idx, k, 2) + 1][1] > Half

\* One pass of the split loop, for the marked vertex i: a slot holds the
\* new duplicate afterwards exactly if it referenced i and one of the
\* other two vertices of its triangle has U > 0.5; every other slot,
\* those that reference i included, keeps its value.
C16_Pass ==
    (pc = "split" /\ split_at' = split_at + 1) =>
        LET i == indices_to_split[split_at + 1]
            new_index == Len(positions)
        IN \A k \in 1..Len(indices) :
              /\ indices'[k] = new_index <=>
                    (indices[k] = i /\ OtherHasLargeU(tex_coords, indices, k))
              /\ indices'[k] # new_index => indices'[k] = indices[k]

\* C16: during the re-walk for a marked vertex i, a slot that references i
\* is redirected to i's new duplicate if and only if at least one of the
\* other two vertices of its triangle has U > 0.5.
C16_Redirect == [][C16_Pass]_vars

C16_Witness ==
    /\ pc = "split"
    /\ generator = "icosphere"
    /\ iterations = 1
    /\ split_at = 1
    /\ \E k \in 1..Len(indices) : indices[k] = Len(positions) - 1
    /\ \E k \in 1..Len(indices) :
          /\ indices[k] = indices_to_split[1]
          /\ ~OtherHasLargeU(tex_coords, indices, k)

\* The mark of the pair of vertices (a, b): the one with the smaller U if
\* their U coordinates differ by more than 0.5, none otherwise.
PairMark(tex, a, b) ==
    IF Abs(tex[a + 1][1] - tex[b + 1][1]) > Half
    THEN << IF tex[a + 1][1] < tex[b + 1][1] THEN a ELSE b >>
    ELSE << >>

RECURSIVE SmallerUMarks(_, _, _, _)
\* The marks of the pairs (first, third), (first, second), (second, third)
\* of the triangles lo..hi (0-based), in triangle order.
SmallerUMarks(tex, idx, lo, hi) ==
    IF lo > hi THEN << >>
    ELSE IF lo = hi
         THEN PairMark(tex, idx[lo * 3 + 1], idx[lo * 3 + 3])
              \o PairMark(tex, idx[lo * 3 + 1], idx[lo * 3 + 2])
              \o PairMark(tex, idx[lo * 3 + 2], idx[lo * 3 + 3])
         ELSE LET mid == (lo + hi) \div 2
              IN SmallerUMarks(tex, idx, lo, mid) \o SmallerUMarks(tex, idx, mid + 1, hi)

\* Whether two vertices of triangle t (0-based) differ by exactly 0.5 in U.
HasPairAtHalf(tex, idx, t) ==
    LET u0 == tex[idx[t * 3 + 1] + 1][1]
        u1 == tex[idx[t * 3 + 2] + 1][1]
        u2 == tex[idx[t * 3 + 3] + 1][1]
    IN Abs(u2 - u0) = Half \/ Abs(u1 - u0) = Half \/ Abs(u2 - u1) = Half

\* C17: the marks seam detection has collected are, triangle by triangle
\* and pair by pair, the vertex with the smaller U of every pair whose U
\* coordinates differ by more than 0.5; a pair that differs by 0.5 or less
\* contributes no mark.
C17_SmallerU ==
    (generator = "icosphere" /\ pc = "split" /\ split_at = 0) =>
        indices_to_split = SmallerUMarks(tex_coords, indices, 0, Len(indices) \div 3 - 1)

C17_Witness ==
    /\ generator = "icosphere"
    /\ pc = "split"
    /\ split_at = 0
    /\ iterations = 2
    /\ Len(indices_to_split) = 42
    /\ \E t \in 0..(Len(indices) \div 3 - 1) : HasPairAtHalf(tex_coords, indices, t)

\* A step of seam resolution (detection, a pass of the split loop, its
\* end): the index list keeps its length, and a slot whose value changes
\* then holds the index of a vertex appended by seam resolution that has
\* the position of the vertex the slot held before.
C18_Step ==
    (generator = "icosphere" /\ pc \in { "detect", "split" }) =>
        /\ Len(indices') = Len(indices)
        /\ \A k \in 1..Len(indices) :
              indices'[k] # indices[k] =>
                  /\ indices'[k] >= PositionsBeforeSeam
                  /\ indices'[k] < Len(positions')
                  /\ positions'[indices'[k] + 1] = positions'[indices[k] + 1]

\* C18: seam resolution never changes the length of the index list; every
\* index value it changes becomes the index of a vertex it appended, whose
\* position is that of the vertex the slot referenced before; every other
\* slot keeps its value.
C18_Frame == [][C18_Step]_vars

C18_Witness ==
    /\ generator = "icosphere"
    /\ pc = "scale"
    /\ iterations = 3
    /\ Len(indices) = 3840
    /\ Len(positions) > PositionsBeforeSeam
    /\ \E k \in 1..Len(indices) :
          /\ indices[k] >= PositionsBeforeSeam
          /\ positions[indices[k] + 1] \in { positions[i + 1] : i \in MarkedVertices }

\* Whether the generator was called with the parameters the specification
\* accepts.
AcceptedParameters ==
    /\ generator = "quad" => (width > 0 /\ height > 0)
    /\ generator = "icosphere" => radius > 0

RECURSIVE CountSlots(_, _, _, _)
\* cnt with 1 added at vertex idx[k] for every slot k of lo..hi (1-based):
\* for cnt all 0, the number of slots that reference each vertex.
CountSlots(cnt, idx, lo, hi) ==
    IF lo > hi THEN cnt
    ELSE IF lo = hi THEN [ cnt EXCEPT ![idx[lo] + 1] = @ + 1 ]
    ELSE LET mid == (lo + hi) \div 2
             first == CountSlots(cnt, idx, lo, mid)
         IN IF Len(first) = Len(cnt) THEN CountSlots(first, idx, mid + 1, hi) ELSE first

\* The number of index slots that reference each vertex.
SlotsPerVertex ==
    CountSlots(ToVec([ k \in 1..Len(positions) |-> 0 ]), indices, 1, Len(indices))

\* C19: when the solver's loop over the triangles has ended, the counter of
\* every vertex v, by which v's sums are divided, is 1 + the number of index
\* slots that reference v: the counters start at 1.
C19_CounterFromOne ==
    (pc = "average" /\ AcceptedParameters) =>
        /\ Len(triangles_included) = Len(positions)
        /\ \A k \in 1..Len(positions) :
              triangles_included[k] = 1 + SlotsPerVertex[k]

\* The tangent and bitangent of the triangle that slot k (1-based) lies in.
VectorsOfSlot(pos, tex, idx, k) ==
    LET t == (k - 1) \div 3
    IN TriangleVectors(pos, tex, idx[t * 3 + 1], idx[t * 3 + 2], idx[t * 3 + 3])

RECURSIVE SumSlots(_, _, _, _, _, _)
\* sums with, for every slot k of lo..hi, the vectors of k's triangle added
\* at the vertex that slot k references.
SumSlots(sums, pos, tex, idx, lo, hi) ==
    IF lo > hi THEN sums
    ELSE IF lo = hi
         THEN LET tv == VectorsOfSlot(pos, tex, idx, lo)
              IN [ sums EXCEPT ![idx[lo] + 1] =
                     [ tangent |-> AddF(@.tangent, tv.tangent),
                       bitangent |-> AddF(@.bitangent, tv.bitangent) ] ]
         ELSE LET mid == (lo + hi) \div 2
                  first == SumSlots(sums, pos, tex, idx, lo, mid)
              IN IF Len(first) = Len(sums)
                 THEN SumSlots(first, pos, tex, idx, mid + 1, hi)
                 ELSE first

\* For every vertex, the sum of the vectors of the triangles of the slots
\* that reference it.
SumsPerVertex ==
    SumSlots(ToVec([ k \in 1..Len(positions) |-> [ tangent |-> Zero3, bitangent |-> Zero3 ] ]),
             positions, tex_coords, indices, 1, Len(indices))

\* C20: the solver holds, and returns, one tangent/bitangent pair per entry
\* of positions, the k-th pair being that of positions[k]; when its loop
\* over the triangles has ended, the tangent (bitangent) accumulated for a
\* vertex is the sum of the tangents (bitangents) of the triangles whose
\* slots reference it, once for every referencing slot.
C20_Sums ==
    /\ pc \in { "average", "pack" } => Len(computed_vectors) = Len(positions)
    /\ pc = "average" => computed_vectors = SumsPerVertex

C20_Witness ==
    /\ pc = "average"
    /\ generator = "icosphere"
    /\ iterations = 2
    /\ radius = Scale
    /\ Len(computed_vectors) = 354
    /\ IsFinite(computed_vectors[1].tangent)
    /\ computed_vectors[1].tangent # Zero3
    /\ computed_vectors[354] = [ tangent |-> Zero3, bitangent |-> Zero3 ]

\* The place a step of Mesh::icosphere that starts at the place p leads to
\* when the phases run in the order base solid, subdivision rounds, UV
\* computation, seam detection, duplication, normal copy, radius scaling,
\* tangent solve, packing.
PlacesAfter(p) ==
    CASE p = "base" -> { "tessellate" }
      [] p = "tessellate" -> { "tessellate", "detect" }
      [] p = "detect" -> { "split" }
      [] p = "split" -> { "split", "scale" }
      [] p = "scale" -> { "tangents" }
      [] p = "tangents" -> { "average" }
      [] p = "average" -> { "pack" }
      [] p = "pack" -> { "done" }
      [] OTHER -> { }

\* One step of a running call of Mesh::icosphere keeps the order of the
\* phases: the UVs are computed when all the rounds asked for have run and
\* no round runs afterwards, the normals are copied when every mark has
\* been duplicated, the solver starts with no vector computed and after it
\* has started positions, UVs and indices stay as it read them.
C21_Step ==
    (generator = "icosphere" /\ pc \in Running) =>
        /\ pc' \in PlacesAfter(pc)
        /\ (pc = "tessellate" /\ pc' = "detect") =>
              (it = iterations /\ tex_coords = << >> /\ Len(tex_coords') = Len(positions))
        /\ (pc = "tessellate" /\ pc' = "tessellate") =>
              (it' = it + 1 /\ it' <= iterations /\ tex_coords' = << >>)
        /\ pc \in { "detect", "split", "scale", "tangents", "average", "pack" } =>
              (it' = it /\ it = iterations)
        /\ pc \in { "base", "tessellate" } => indices_to_split' = << >>
        /\ pc = "detect" => UNCHANGED << positions, tex_coords, indices >>
        /\ (pc = "split" /\ pc' = "scale") =>
              /\ split_at = Len(indices_to_split)
              /\ normals' = positions
              /\ UNCHANGED << positions, tex_coords, indices >>
        /\ pc \in { "base", "tessellate", "detect", "split" } => normals = << >>
        /\ pc = "scale" => UNCHANGED << tex_coords, indices, normals >>
        /\ pc \in { "base", "tessellate", "detect", "split", "scale", "tangents" } =>
              computed_vectors = << >>
        /\ pc \in { "tangents", "average", "pack" } =>
              UNCHANGED << positions, tex_coords, indices, normals, indices_to_split >>
        /\ pc = "tangents" => Len(computed_vectors') = Len(positions)
        /\ pc = "pack" => UNCHANGED computed_vectors

\* C21: in every call of Mesh::icosphere the phases run strictly in the
\* order base solid, all subdivision rounds, UV computation, seam detection
\* and duplication, normal copy, radius scaling, tangent solve, packing:
\* seam resolution starts only after the last round and has ended before
\* the solver starts, and the solver runs once, over the positions, UVs and
\* index list that are packed.
C21_PhaseOrder == [][C21_Step]_vars

C21_Witness ==
    /\ generator = "icosphere"
    /\ pc = "done"
    /\ iterations = 2
    /\ it = 2
    /\ split_at = Len(indices_to_split)
    /\ Len(indices_to_split) = 42
    /\ Len(computed_vectors) = Len(positions)
    /\ Len(normals) = Len(positions)

\* The entry of the lists that the k-th emitted vertex was packed from.
SourceOfVertex(k) == IF use_indices THEN k ELSE indices[k] + 1

\* The normals of Mesh::icosphere once they exist: one per position, the
\* unit position itself while the positions are not scaled, a duplicate's
\* normal that of the vertex it duplicates, and the normal packed into a
\* vertex that of the entry the vertex was packed from.
C22_Normals ==
    (generator = "icosphere" /\ pc \in AfterSeam) =>
        /\ Len(normals) = Len(positions)
        /\ pc = "scale" => normals = positions
        /\ Len(normals) = PositionsBeforeSeam + Len(indices_to_split)
        /\ \A k \in 1..Len(indices_to_split) :
              normals[PositionsBeforeSeam + k] = normals[indices_to_split[k] + 1]
        /\ pc = "done" =>
              \A k \in 1..Len(vertices) :
                  /\ vertices[k].normal = normals[SourceOfVertex(k)]
                  /\ vertices[k].position = Scale3(vertices[k].normal, radius)

\* The scaling by radius writes the positions only.
C22_Scale ==
    (generator = "icosphere" /\ pc \in AfterSeam /\ pc' \in AfterSeam) =>
        /\ normals' = normals
        /\ pc = "scale" =>
              /\ UNCHANGED << tex_coords, indices >>
              /\ Len(positions') = Len(positions)
              /\ \A k \in 1..Len(positions) : positions'[k] = Scale3(normals[k], radius)

\* C22: the normal of every vertex Mesh::icosphere emits is that vertex's
\* unit-sphere position as it was before the scaling by radius (a seam
\* duplicate has the normal of its original), there are as many normals as
\* final positions, and the scaling changes the positions only: normals,
\* UVs and indices stay.
C22_NormalCopy == []C22_Normals /\ [][C22_Scale]_vars

C22_Witness ==
    /\ generator = "icosphere"
    /\ pc = "done"
    /\ radius = 2 * Scale
    /\ iterations = 1
    /\ ~use_indices
    /\ Len(indices_to_split) = 18
    /\ Len(normals) = 90
    /\ \E k \in 1..Len(vertices) :
          /\ indices[k] >= PositionsBeforeSeam
          /\ vertices[k].normal # vertices[k].position
          /\ HasLength(vertices[k].normal, Scale)

\* Whether the list after is the list before with entries appended.
Extends(after, before) ==
    /\ Len(after) >= Len(before)
    /\ SubSeq(after, 1, Len(before)) = before

\* A step of Mesh::icosphere before the scaling by radius: positions keeps
\* every entry it has and grows at its end only; so does tex_coords once it
\* exists, and seam resolution keeps it as long as positions.
C23_Step ==
    (generator = "icosphere" /\ pc \in { "tessellate", "detect", "split" }) =>
        /\ Extends(positions', positions)
        /\ pc \in { "detect", "split" } =>
              /\ Extends(tex_coords', tex_coords)
              /\ Len(tex_coords') = Len(positions')
        /\ (pc = "split" /\ pc' = "split") =>
              /\ Len(positions') = Len(positions) + 1
              /\ Len(tex_coords') = Len(tex_coords) + 1

\* C23: during subdivision and seam splitting the position list of
\* Mesh::icosphere only grows by appends, no entry changing its value before
\* the scaling by radius; seam splitting only appends to the UV list,
\* changes no UV it holds, and keeps it as long as the position list.
C23_AppendOnly == [][C23_Step]_vars

C23_Witness ==
    /\ generator = "icosphere"
    /\ pc = "split"
    /\ iterations = 3
    /\ split_at = 90
    /\ Len(positions) = 1272 + 90
    /\ Len(tex_coords) = Len(positions)
    /\ tex_coords[Len(tex_coords)][1] >= Scale

\* Triangle j (0-based) of the index list idx.
TriangleAt(idx, j) == << idx[j * 3 + 1], idx[j * 3 + 2], idx[j * 3 + 3] >>

\* The triangle tri written from its smallest index on: two triangles are
\* the same up to a cyclic shift, that is, have the same vertices and the
\* same orientation, iff this agrees for them.
FromSmallest(tri) ==
    IF tri[1] <= tri[2] /\ tri[1] <= tri[3] THEN tri
    ELSE IF tri[2] <= tri[1] /\ tri[2] <= tri[3] THEN << tri[2], tri[3], tri[1] >>
    ELSE << tri[3], tri[1], tri[2] >>

\* The point of the unit sphere halfway between two positions.
EdgeMidpoint(p, q) == Normalize(Add3(p, q))

\* Six times the signed volume between the origin and the triangle of the
\* positions p, q, r, in coarse units: its sign is the orientation in which
\* the triangle is seen from outside the sphere.
Orientation(p, q, r) ==
    LET c(v, n) == v[n] \div 20
    IN   c(p, 1) * (c(q, 2) * c(r, 3) - c(q, 3) * c(r, 2))
       - c(p, 2) * (c(q, 1) * c(r, 3) - c(q, 3) * c(r, 1))
       + c(p, 3) * (c(q, 1) * c(r, 2) - c(q, 2) * c(r, 1))

OrientationAt(pos, tri) ==
    Sign(Orientation(pos[tri[1] + 1], pos[tri[2] + 1], pos[tri[3] + 1]))

\* Whether the round that made idx2 and pos2 of idx and pos replaced
\* triangle t of idx by its three corner triangles and its central
\* triangle, all oriented like it.
Subdivided(pos, idx, pos2, idx2, t) ==
    LET old == TriangleAt(idx, t)
        a == old[1]
        b == old[2]
        c == old[3]
        made == { FromSmallest(TriangleAt(idx2, 4 * t + j)) : j \in 0..3 }
        fresh == { idx2[12 * t + k] : k \in 1..12 } \ { a, b, c }
    IN /\ Cardinality(fresh) = 3
       /\ \A m \in fresh : m >= Len(pos) /\ m < Len(pos2)
       /\ \E ab \in fresh, bc \in fresh, ca \in fresh :
             /\ pos2[ab + 1] = EdgeMidpoint(pos[a + 1], pos[b + 1])
             /\ pos2[bc + 1] = EdgeMidpoint(pos[b + 1], pos[c + 1])
             /\ pos2[ca + 1] = EdgeMidpoint(pos[a + 1], pos[c + 1])
             /\ made = { FromSmallest(<< a, ab, ca >>), FromSmallest(<< b, bc, ab >>),
                         FromSmallest(<< c, ca, bc >>), FromSmallest(<< ab, bc, ca >>) }
       /\ Cardinality(made) = 4
       /\ \A j \in 0..3 :
             /\ OrientationAt(pos2, TriangleAt(idx2, 4 * t + j)) = OrientationAt(pos, old)
             /\ OrientationAt(pos, old) # 0

\* The indices a list references.
Referenced(idx) == { idx[k] : k \in 1..Len(idx) }

\* One subdivision round.
C24_Round ==
    (generator = "icosphere" /\ pc = "tessellate" /\ pc' = "tessellate") =>
        /\ Len(indices') = 4 * Len(indices)
        /\ \A t \in 0..(Len(indices) \div 3 - 1) :
              Subdivided(positions, indices, positions', indices', t)
        /\ Referenced(indices') = Referenced(indices) \cup (Len(positions)..(Len(positions') - 1))

\* C24: a subdivision round replaces every triangle (a, b, c) of the old
\* index list by exactly 4 triangles of a new index list: for each corner
\* the triangle of the corner and the new midpoints of its two edges, and
\* the triangle of the three midpoints, all four in the cyclic orientation
\* of (a, b, c); the new list references every old corner and every new
\* midpoint.
C24_Subdivision == [][C24_Round]_vars

C24_Witness ==
    /\ generator = "icosphere"
    /\ pc = "tessellate"
    /\ it = 3
    /\ Len(indices) = 3840
    /\ TriangleAt(indices, 0) = << 0, 312, 314 >>

\* Whether every entry of the list idx is a valid index into a list of
\* length len.
InBounds(idx, len) == \A k \in 1..Len(idx) : idx[k] >= 0 /\ idx[k] < len

\* C25: at every step of Mesh::icosphere from the base solid on, every
\* value of the index list is smaller than the length of the position
\* list, and once the UVs are computed smaller than the length of the UV
\* list; so are the marks of seam detection; and the lists that the solver
\* and the packing read by these values (normals, the solver's counters and
\* vectors) are as long as the position list, so no access to a list is
\* out of bounds.
C25_InBounds ==
    (generator = "icosphere" /\ pc \notin { "idle", "base", "ui" }) =>
        /\ Len(indices) % 3 = 0
        /\ InBounds(indices, Len(positions))
        /\ pc # "tessellate" =>
              /\ InBounds(indices, Len(tex_coords))
              /\ Len(tex_coords) = Len(positions)
        /\ pc = "split" =>
              /\ InBounds(indices_to_split, Len(positions))
              /\ InBounds(indices_to_split, Len(tex_coords))
        /\ pc \in AfterSeam => InBounds(indices, Len(normals))
        /\ pc = "average" =>
              /\ InBounds(indices, Len(triangles_included))
              /\ Len(triangles_included) = Len(computed_vectors)
        /\ pc = "pack" =>
              /\ InBounds(indices, Len(computed_vectors))
              /\ Len(computed_vectors) = Len(positions)

C25_Witness ==
    /\ generator = "icosphere"
    /\ pc = "pack"
    /\ iterations = 3
    /\ Len(indices) = 3840
    /\ Len(positions) = 1362
    /\ \E k \in 1..Len(indices) : indices[k] >= 1272

\* C26: in the indexed output of Mesh::icosphere every vertex of the vertex
\* list is referenced by at least one slot of the index list, be it an
\* original or a seam duplicate, so the solver adds at least one triangle
\* to every vertex.
C26_AllReferenced ==
    (generator = "icosphere" /\ pc = "done" /\ use_indices /\ radius > 0) =>
        \A v \in 0..(Len(vertices) - 1) : v \in Referenced(index_buffer)

\* C27: after any sequence of device events and frames, mouse_pressed is
\* the state of the most recent left-button device event, also when the GUI
\* was using the pointer at the time of that event.
C27_TracksLeftButton ==
    mouse_pressed <=> (left_button = "Pressed")

\* The camera rotation a motion event asks for.
Rotation(c) == << c.rotate_horizontal, c.rotate_vertical >>

\* C28: while the GUI uses the keyboard no key event changes the camera
\* controller; while it uses the pointer no button, motion or wheel event
\* changes the controller or mouse_pressed; while it does not, a motion
\* event sets the controller's rotation only if mouse_pressed is true.
C28_Step ==
    /\ \A event \in KeyEvents :
           (using_keyboard /\ DeviceEventOf(event))
               => UNCHANGED camera_controller
    /\ \A event \in ButtonEvents \cup MouseMotionEvents \cup MouseWheelEvents :
           (using_pointer /\ DeviceEventOf(event))
               => UNCHANGED << camera_controller, mouse_pressed >>
    /\ \A event \in MouseMotionEvents :
           (~using_pointer /\ DeviceEventOf(event))
               => IF mouse_pressed
                  THEN /\ Rotation(camera_controller') = event.delta
                       /\ camera_controller' =
                              [ camera_controller EXCEPT
                                  !.rotate_horizontal = event.delta[1],
                                  !.rotate_vertical = event.delta[2] ]
                  ELSE UNCHANGED camera_controller
C28_InputGating == [][C28_Step]_vars

\* The GUI uses the pointer and the keyboard, a left press has arrived and
\* was not passed on, and the W key pressed earlier is still held.
C28_Witness ==
    /\ using_pointer
    /\ using_keyboard
    /\ left_button = "Pressed"
    /\ ~mouse_pressed
    /\ camera_controller.move_forward # 0

\* The move_* fields of the controller and the keys that set each.
MoveKeys ==
    [ move_forward |-> { "W", "Up" }, move_backward |-> { "S", "Down" },
      move_left |-> { "A", "Left" }, move_right |-> { "D", "Right" },
      move_up |-> { "E" }, move_down |-> { "Q" } ]
AllKeys == UNION { MoveKeys[f] : f \in DOMAIN MoveKeys } \cup { "Space" }

\* A step that is a frame.
IsFrame ==
    \E dt \in { 0, Tick }, wants_pointer \in BOOLEAN, wants_keyboard \in BOOLEAN :
        RedrawRequestedOf(dt, wants_pointer, wants_keyboard)

\* C29: after every update_eye call scroll, rotate_horizontal and
\* rotate_vertical are 0, so a scroll or mouse delta affects one update
\* only (the next one, with no key held, leaves the eye where it is); the
\* six move_* amounts are left unchanged by update_eye and change only when
\* process_keyboard receives a key of theirs, to 0 only on its release.
C29_Step ==
    /\ IsFrame =>
           /\ camera_controller'.scroll = 0
           /\ Rotation(camera_controller') = << 0, 0 >>
           /\ \A f \in DOMAIN MoveKeys : camera_controller'[f] = camera_controller[f]
           /\ (camera_controller.scroll = 0 /\ Rotation(camera_controller) = << 0, 0 >>)
                  => /\ eye'.yaw = eye.yaw
                     /\ eye'.pitch = eye.pitch
                     /\ (\A f \in DOMAIN MoveKeys : camera_controller[f] = 0)
                            => eye' = eye
    /\ \A f \in DOMAIN MoveKeys :
           /\ camera_controller'[f] # camera_controller[f]
                  => \E event \in KeyEvents :
                         /\ event.virtual_keycode \in MoveKeys[f]
                         /\ event.state = "Released" <=> camera_controller'[f] = 0
                         /\ DeviceEventOf(event)
           /\ \A key \in AllKeys \ MoveKeys[f], state \in ElementStates :
                  process_keyboard(camera_controller, key, state)[f]
                      = camera_controller[f]
           /\ \A key \in MoveKeys[f] :
                  /\ process_keyboard(camera_controller, key, "Released")[f] = 0
                  /\ process_keyboard(camera_controller, key, "Pressed")[f] = Scale
C29_OneShot == [][C29_Step]_vars

\* A frame has consumed a mouse rotation (the yaw has turned and the
\* rotation is 0 again) while the W key is still held.
C29_Witness ==
    /\ last_render_time = Tick
    /\ eye.yaw # -FRAC_PI_2
    /\ camera_controller.scroll = 0
    /\ Rotation(camera_controller) = << 0, 0 >>
    /\ camera_controller.move_forward = Scale

\* C30: after every update_eye call, whatever rotation the mouse has left
\* and whatever time has passed, the pitch lies within -SAFE_FRAC_PI_2 and
\* SAFE_FRAC_PI_2, which is strictly inside -pi/2 .. pi/2, while the yaw is
\* the old yaw plus the whole rotation, never clamped.
C30_Step ==
    IsFrame =>
        /\ -SAFE_FRAC_PI_2 <= eye'.pitch
        /\ eye'.pitch <= SAFE_FRAC_PI_2
        /\ SAFE_FRAC_PI_2 < FRAC_PI_2
        /\ \E dt \in { 0, Tick } :
               /\ last_render_time' = last_render_time + dt
               /\ eye'.yaw = eye.yaw
                      + FMulWide(FMulWide(camera_controller.rotate_horizontal,
                                          camera_controller.sensitivity), dt)
C30_PitchContained == [][C30_Step]_vars

\* A frame has turned the camera by a drag that would lift the pitch past
\* pi/2 and takes the yaw past -pi: the pitch stops at SAFE_FRAC_PI_2, the
\* yaw does not stop.
C30_Witness ==
    /\ last_render_time = Tick
    /\ eye.pitch = SAFE_FRAC_PI_2
    /\ eye.yaw < -PI

====
